---- MODULE Spec2Model ----
(***************************************************************************)
(* Model of the batch-processing core of Cobra:                            *)
(*   ImageQueue     (src/batch_processing/core/queue.py)                   *)
(*   StatusTracker  (src/batch_processing/core/status.py)                  *)
(*   BatchProcessor (src/batch_processing/processor.py)                    *)
(*                                                                         *)
(* The two data structures are modelled as records with pure operators     *)
(* that return the object after the call together with the call's result.  *)
(* Three groups of specifications drive them:                              *)
(*   SpecFillDrain, SpecQueue   the ImageQueue on its own                  *)
(*   SpecTracker                the StatusTracker on its own               *)
(*   Spec                       the BatchProcessor with its queue/tracker  *)
(***************************************************************************)
EXTENDS Integers, Sequences, FiniteSets, TLC

VARIABLES
    q,          \* ImageQueue: [queue |-> _queue, size |-> _size]
    tracker,    \* StatusTracker: [statuses, batch_start_time, batch_end_time]
    now,        \* the value time.time() returns
    lastOp,     \* the last completed call on the queue and what it returned
    raised,     \* the exception the last tracker call raised ("none" if none)
    arrivals,   \* number of enqueue calls so far (ids are arrival numbers)
    calls,      \* SpecTracker: number of calls made on the tracker so far
    phase,      \* SpecFillDrain: "fill" while enqueuing, "drain" while dequeuing
    out,        \* SpecFillDrain: the jobs dequeued so far, in order
    preview_mode, \* BatchProcessor.config.preview_mode
    bp,         \* BatchProcessor: its control flags and preview state
    pc,         \* per thread: the statement of the processor it is at
    queue_item, \* per thread: the id of the job it dequeued (0: none)
    fn,         \* per thread: the method whose loop it runs
    result,     \* per thread: how its last call on the processor ended
    rendered,   \* per job: how often it was handed to the renderer
    image_paths, \* add_images: the paths its loop has not yet reached
    valid_count, \* add_images: its counter of the jobs added
    gc,         \* per thread: the threshold checks for the job it executed last
    history,    \* whether the state at the start of each call is recorded
    entry       \* per thread: its last call and the state in which it was made

\* The state of the BatchProcessor and of the threads calling it.
orch == <<preview_mode, bp, pc, queue_item, fn, result, rendered,
          image_paths, valid_count, gc, history, entry>>

\* What no call changes: the configuration, and whether calls are recorded.
config == <<preview_mode, history>>

\* The locals of add_images.
adding == <<image_paths, valid_count>>

\* The state of the stand-alone queue and tracker drivers.
harness == <<now, lastOp, raised, calls, phase, out>>

vars == <<q, tracker, arrivals, harness, orch>>

(***************************************************************************)
(* Bounds of the model.                                                    *)
(***************************************************************************)
MaxPriority == 2
MaxEnq == 4
MaxIds == 2
MaxTime == 2
MaxCalls == 5
MaxJobs == 2
MaxBatch == 2

Priorities == 0..MaxPriority

(***************************************************************************)
(* ImageQueue                                                              *)
(***************************************************************************)

\* An ImageQueueItem, reduced to the fields the queue reads.
ImageQueueItem(i, p) == [id |-> i, priority |-> p]

\* ImageQueue.__init__
NewQueue == [queue |-> <<>>, size |-> 0]

\* The linear scan of enqueue: the first index whose item has a strictly
\* lower priority than the new one, else len(_queue) (0-based, as in Python).
RECURSIVE ScanFrom(_, _, _)
ScanFrom(queue, item, i) ==
    IF i > Len(queue) THEN Len(queue)
    ELSE IF item.priority > queue[i].priority THEN i - 1
    ELSE ScanFrom(queue, item, i + 1)

\* A scan that also passes over nothing of equal priority (>= for >): the new
\* item lands before its equals.
RECURSIVE ScanFromGE(_, _, _)
ScanFromGE(queue, item, i) ==
    IF i > Len(queue) THEN Len(queue)
    ELSE IF item.priority >= queue[i].priority THEN i - 1
    ELSE ScanFromGE(queue, item, i + 1)

InsertPosGE(queue, item) == ScanFromGE(queue, item, 1)

\* A scan that never finds a position: every item is appended.
InsertPosAppend(queue, item) == Len(queue)

InsertPos(queue, item) == ScanFrom(queue, item, 1)

\* list.insert(pos, item), pos 0-based
ListInsert(queue, pos, item) ==
    SubSeq(queue, 1, pos) \o <<item>> \o SubSeq(queue, pos + 1, Len(queue))

\* ImageQueue.enqueue
enqueue(Q, item) ==
    [queue |-> ListInsert(Q.queue, InsertPos(Q.queue, item), item),
     size  |-> Q.size + 1]

\* ImageQueue.dequeue: the queue after the call and the returned item
\* (<<>> stands for None, <<item>> for an item).
dequeue(Q) ==
    IF Q.size = 0
    THEN [Q |-> Q, ret |-> <<>>]
    ELSE [Q   |-> [queue |-> Tail(Q.queue), size |-> Q.size - 1],
          ret |-> <<Q.queue[1]>>]

\* A peek that looks at the wrong end of the list.
peekLast(Q) ==
    IF Q.size = 0 THEN <<>> ELSE <<Q.queue[Len(Q.queue)]>>

\* ImageQueue.peek
peek(Q) ==
    IF Q.size = 0 THEN <<>> ELSE <<Q.queue[1]>>

\* ImageQueue.size
size(Q) == Q.size

\* ImageQueue.clear
clear(Q) == [queue |-> <<>>, size |-> 0]

(***************************************************************************)
(* StatusTracker                                                           *)
(***************************************************************************)

\* The value None of an Optional[float] timestamp; time.time() is >= 1 here.
NoTime == 0

\* The value None of an Optional[str] field.
NoStr == "None"

\* ProcessingState
PENDING == "pending"
PROCESSING == "processing"
COMPLETED == "completed"
FAILED == "failed"
CANCELLED == "cancelled"

\* valid_states = [state.value for state in ProcessingState]
valid_states == {PENDING, PROCESSING, COMPLETED, FAILED, CANCELLED}

\* ProcessingStatus.is_terminal_state, on a state value
is_terminal_state(s) == s \in {COMPLETED, FAILED, CANCELLED}

\* ProcessingStatus(id, state): the remaining fields default to None.
ProcessingStatus(s) ==
    [state |-> s, start_time |-> NoTime, end_time |-> NoTime,
     error_message |-> NoStr, output_path |-> NoStr]

\* StatusTracker.__init__ (statuses is a dict: a function on the tracked ids)
NewTracker ==
    [statuses |-> <<>>, batch_start_time |-> NoTime, batch_end_time |-> NoTime]

Tracked(T) == DOMAIN T.statuses

CountState(T, s) == Cardinality({i \in Tracked(T) : T.statuses[i].state = s})

\* StatusTracker.get_summary
get_summary(T) ==
    [total      |-> Cardinality(Tracked(T)),
     pending    |-> CountState(T, PENDING),
     processing |-> CountState(T, PROCESSING),
     completed  |-> CountState(T, COMPLETED),
     failed     |-> CountState(T, FAILED),
     cancelled  |-> CountState(T, CANCELLED),
     start_time |-> T.batch_start_time,
     end_time   |-> T.batch_end_time]

\* StatusSummary.is_complete
is_complete(summary) ==
    summary.completed + summary.failed + summary.cancelled = summary.total

\* add_image that stamps batch_start_time at every registration
add_image_restamp(T, image_id, t) ==
    IF image_id \in Tracked(T)
    THEN [T |-> T, err |-> "ValueError"]
    ELSE [T |-> [T EXCEPT
                   !.statuses = [i \in Tracked(T) \cup {image_id} |->
                                   IF i = image_id THEN ProcessingStatus(PENDING)
                                   ELSE T.statuses[i]],
                   !.batch_start_time = t],
          err |-> "none"]

\* StatusTracker.add_image at time t: the tracker after the call and the
\* exception raised ("none" when the call returns normally).
add_image(T, image_id, t) ==
    IF image_id \in Tracked(T)
    THEN [T |-> T, err |-> "ValueError"]
    ELSE [T |-> [T EXCEPT
                   !.statuses = [i \in Tracked(T) \cup {image_id} |->
                                   IF i = image_id THEN ProcessingStatus(PENDING)
                                   ELSE T.statuses[i]],
                   !.batch_start_time =
                       IF T.batch_start_time = NoTime THEN t
                       ELSE T.batch_start_time],
          err |-> "none"]

\* The body of update_status with the end_time guard dropped: every terminal
\* update stamps end_time again.
ApplyUpdateRestamp(T, image_id, state, error_message, output_path, t) ==
    LET old == T.statuses[image_id]
        st1 == [old EXCEPT !.state = state]
        st2 == IF state = PROCESSING /\ old.state = PENDING
               THEN [st1 EXCEPT !.start_time = t] ELSE st1
        st3 == IF is_terminal_state(state)
               THEN [st2 EXCEPT !.end_time = t] ELSE st2
        st4 == IF error_message # NoStr
               THEN [st3 EXCEPT !.error_message = error_message] ELSE st3
        st5 == IF output_path # NoStr
               THEN [st4 EXCEPT !.output_path = output_path] ELSE st4
        T1  == [T EXCEPT !.statuses[image_id] = st5]
    IN  IF is_complete(get_summary(T1)) /\ T1.batch_end_time = NoTime
        THEN [T1 EXCEPT !.batch_end_time = t]
        ELSE T1

\* The body of update_status with the batch_end_time guard dropped: every
\* update that finds the batch complete stamps batch_end_time again.
ApplyUpdateEndRestamp(T, image_id, state, error_message, output_path, t) ==
    LET old == T.statuses[image_id]
        st1 == [old EXCEPT !.state = state]
        st2 == IF state = PROCESSING /\ old.state = PENDING
               THEN [st1 EXCEPT !.start_time = t] ELSE st1
        st3 == IF is_terminal_state(state) /\ st2.end_time = NoTime
               THEN [st2 EXCEPT !.end_time = t] ELSE st2
        st4 == IF error_message # NoStr
               THEN [st3 EXCEPT !.error_message = error_message] ELSE st3
        st5 == IF output_path # NoStr
               THEN [st4 EXCEPT !.output_path = output_path] ELSE st4
        T1  == [T EXCEPT !.statuses[image_id] = st5]
    IN  IF is_complete(get_summary(T1))
        THEN [T1 EXCEPT !.batch_end_time = t]
        ELSE T1

\* The body of update_status after its two checks (status.py lines 192-216).
ApplyUpdate(T, image_id, state, error_message, output_path, t) ==
    LET old == T.statuses[image_id]
        st1 == [old EXCEPT !.state = state]
        st2 == IF state = PROCESSING /\ old.state = PENDING
               THEN [st1 EXCEPT !.start_time = t] ELSE st1
        st3 == IF is_terminal_state(state) /\ st2.end_time = NoTime
               THEN [st2 EXCEPT !.end_time = t] ELSE st2
        st4 == IF error_message # NoStr
               THEN [st3 EXCEPT !.error_message = error_message] ELSE st3
        st5 == IF output_path # NoStr
               THEN [st4 EXCEPT !.output_path = output_path] ELSE st4
        T1  == [T EXCEPT !.statuses[image_id] = st5]
    IN  IF is_complete(get_summary(T1)) /\ T1.batch_end_time = NoTime
        THEN [T1 EXCEPT !.batch_end_time = t]
        ELSE T1

\* update_status without its check of the state argument.
update_status_unchecked(T, image_id, state, error_message, output_path, t) ==
    IF image_id \notin Tracked(T)
    THEN [T |-> T, err |-> "KeyError"]
    ELSE [T |-> ApplyUpdate(T, image_id, state, error_message, output_path, t),
          err |-> "none"]

\* update_status that assigns the state before it validates it.
update_status_late_check(T, image_id, state, error_message, output_path, t) ==
    IF image_id \notin Tracked(T)
    THEN [T |-> T, err |-> "KeyError"]
    ELSE IF state \notin valid_states
    THEN [T |-> [T EXCEPT !.statuses[image_id].state = state], err |-> "ValueError"]
    ELSE [T |-> ApplyUpdate(T, image_id, state, error_message, output_path, t),
          err |-> "none"]

\* StatusTracker.update_status at time t
update_status(T, image_id, state, error_message, output_path, t) ==
    IF image_id \notin Tracked(T)
    THEN [T |-> T, err |-> "KeyError"]
    ELSE IF state \notin valid_states
    THEN [T |-> T, err |-> "ValueError"]
    ELSE [T |-> ApplyUpdate(T, image_id, state, error_message, output_path, t),
          err |-> "none"]

\* StatusTracker.get_status: the status object of the job (here: the id it is
\* stored under), or KeyError
get_status(T, image_id) ==
    IF image_id \notin Tracked(T)
    THEN [ret |-> 0, err |-> "KeyError"]
    ELSE [ret |-> image_id, err |-> "none"]

\* StatusTracker.clear
clear_tracker(T) ==
    [statuses |-> <<>>, batch_start_time |-> NoTime, batch_end_time |-> NoTime]

(***************************************************************************)
(* BatchProcessor: construction                                            *)
(***************************************************************************)

\* The threads that call the processor: the UI runs start_processing on a
\* thread of its own (app_batch.py, batch_ui.py).
Threads == {"main", "worker"}

\* The thread of the caller: it makes every call.  The other thread is the
\* one the caller spawns with start_processing as its target.
Caller == "main"

\* BatchProcessor.__init__: the control flags and the preview state
NewProcessor ==
    [paused |-> FALSE, cancelled |-> FALSE, processing |-> FALSE,
     preview_processed |-> FALSE, preview_approved |-> FALSE,
     preview_result |-> <<>>]

\* The processor is constructed and no thread has called it yet.
\* No call made yet.
NoEntry == [call |-> "none"]

\* A thread that has executed no job since it last dequeued one.
NoJob == <<>>

InitOrch ==
    /\ bp = NewProcessor
    /\ pc = [t \in Threads |-> "idle"]
    /\ queue_item = [t \in Threads |-> 0]
    /\ fn = [t \in Threads |-> "none"]
    /\ result = [t \in Threads |-> "none"]
    /\ rendered = [i \in 1..MaxJobs |-> 0]
    /\ image_paths = <<>>
    /\ valid_count = 0
    /\ gc = [t \in Threads |-> NoJob]
    /\ entry = [t \in Threads |-> NoEntry]

(***************************************************************************)
(* Calls on a stand-alone ImageQueue                                       *)
(***************************************************************************)

NoOp == [op |-> "none", ret |-> <<>>]

InitData ==
    /\ q = NewQueue
    /\ tracker = NewTracker
    /\ now = 1
    /\ lastOp = NoOp
    /\ raised = "none"
    /\ arrivals = 0
    /\ calls = 0
    /\ phase = "fill"
    /\ out = <<>>
    /\ preview_mode = FALSE
    /\ history = FALSE
    /\ InitOrch

\* queue.enqueue(ImageQueueItem(priority=p)); the id is the arrival number
EnqueueCall(p) ==
    /\ arrivals < MaxEnq
    /\ q' = enqueue(q, ImageQueueItem(arrivals + 1, p))
    /\ arrivals' = arrivals + 1
    /\ lastOp' = [NoOp EXCEPT !.op = "enqueue"]

\* queue.dequeue()
DequeueCall ==
    /\ q' = dequeue(q).Q
    /\ lastOp' = [NoOp EXCEPT !.op = "dequeue", !.ret = dequeue(q).ret]

Enqueue(p) ==
    /\ EnqueueCall(p)
    /\ UNCHANGED <<tracker, now, raised, calls, phase, out, orch>>

Dequeue ==
    /\ DequeueCall
    /\ UNCHANGED <<tracker, now, raised, arrivals, calls, phase, out, orch>>

\* queue.peek()
Peek ==
    /\ lastOp' = [NoOp EXCEPT !.op = "peek", !.ret = peek(q)]
    /\ UNCHANGED <<q, tracker, now, raised, arrivals, calls, phase, out, orch>>

\* queue.clear()
Clear ==
    /\ q' = clear(q)
    /\ lastOp' = [NoOp EXCEPT !.op = "clear"]
    /\ UNCHANGED <<tracker, now, raised, arrivals, calls, phase, out, orch>>

NextQueue ==
    \/ \E p \in Priorities : Enqueue(p)
    \/ Dequeue
    \/ Peek
    \/ Clear

\* Any interleaving of enqueue, dequeue, peek and clear on one queue.
SpecQueue == InitData /\ [][NextQueue]_vars

\* A run of enqueues on the empty queue ...
FillEnqueue(p) ==
    /\ phase = "fill"
    /\ EnqueueCall(p)
    /\ UNCHANGED <<tracker, now, raised, calls, phase, out, orch>>

\* ... followed by dequeues until the queue is empty.
DrainDequeue ==
    /\ size(q) > 0
    /\ DequeueCall
    /\ phase' = "drain"
    /\ out' = out \o dequeue(q).ret
    /\ UNCHANGED <<tracker, now, raised, arrivals, calls, orch>>

NextFillDrain ==
    \/ \E p \in Priorities : FillEnqueue(p)
    \/ DrainDequeue

SpecFillDrain == InitData /\ [][NextFillDrain]_vars

(***************************************************************************)
(* Calls on a stand-alone StatusTracker                                    *)
(***************************************************************************)

Ids == 1..MaxIds

\* The state argument of update_status: the five states and one other string.
StateArgs == valid_states \cup {"bogus"}

\* The optional (error_message, output_path) arguments: neither, or the one
\* the processor passes with FAILED, or the one it passes with COMPLETED.
OptArgs == {<<NoStr, NoStr>>, <<"error", NoStr>>, <<NoStr, "out.png">>}

\* One more call on the tracker, of at most MaxCalls.
CountCall ==
    /\ calls < MaxCalls
    /\ calls' = calls + 1

\* tracker.add_image(image_id); ids are interchangeable, so a fresh id is the
\* lowest unused one.
AddImage(image_id) ==
    /\ image_id <= Cardinality(Tracked(tracker)) + 1
    /\ CountCall
    /\ \E r \in {add_image(tracker, image_id, now)} :
          /\ tracker' = r.T
          /\ raised' = r.err
    /\ UNCHANGED <<q, now, lastOp, arrivals, phase, out, orch>>

\* tracker.update_status(image_id, state, error_message, output_path)
UpdateStatus(image_id, state, error_message, output_path) ==
    /\ CountCall
    /\ \E r \in {update_status(tracker, image_id, state, error_message,
                               output_path, now)} :
          /\ tracker' = r.T
          /\ raised' = r.err
    /\ UNCHANGED <<q, now, lastOp, arrivals, phase, out, orch>>

\* tracker.clear()
ClearTracker ==
    /\ CountCall
    /\ tracker' = clear_tracker(tracker)
    /\ raised' = "none"
    /\ UNCHANGED <<q, now, lastOp, arrivals, phase, out, orch>>

\* Time passes between two calls.
Tick ==
    /\ now < MaxTime
    /\ now' = now + 1
    /\ UNCHANGED <<q, tracker, lastOp, raised, arrivals, calls, phase, out, orch>>

NextTracker ==
    \/ \E i \in Ids : AddImage(i)
    \/ \E i \in Ids, s \in StateArgs, a \in OptArgs :
          UpdateStatus(i, s, a[1], a[2])
    \/ ClearTracker
    \/ Tick

\* Any sequence of at most MaxCalls calls on one tracker, with time passing.
SpecTracker == InitData /\ [][NextTracker]_vars

(***************************************************************************)
(* BatchProcessor: the calls, one action per statement that reads or       *)
(* writes state shared between threads.  A call on the queue or on the     *)
(* tracker is one step.  time.time() stays at its initial value here.      *)
(***************************************************************************)

\* The thread's locals after a step: where it is, the job it holds, the
\* method whose loop it runs, and how its call ended ("none": still running).
Step(t, l, it, f, r) ==
    /\ pc' = [pc EXCEPT ![t] = l]
    /\ queue_item' = [queue_item EXCEPT ![t] = it]
    /\ fn' = [fn EXCEPT ![t] = f]
    /\ result' = [result EXCEPT ![t] = r]

Goto(t, l) == Step(t, l, queue_item[t], fn[t], result[t])

\* The call returns ("ok"), returns after logging a warning ("warning"), or
\* raises (the exception's name).
Return(t, r) == Step(t, "idle", 0, "none", r)

\* Thread t makes a call with an argument: if calls are recorded, the call,
\* its argument and the state it is made in are noted.
EnterWith(t, call, arg) ==
    entry' = IF history
             THEN [entry EXCEPT ![t] = [call |-> call, arg |-> arg,
                                        q |-> q, tracker |-> tracker,
                                        bp |-> bp, rendered |-> rendered,
                                        accepted |-> <<>>]]
             ELSE entry

\* Thread t makes a call that takes no argument.
Enter(t, call) == EnterWith(t, call, <<>>)

\* The same record, completed at the statement by which the call takes effect
\* with the queue, the tracker, the flags and the render counts of that moment.
Accept(t) ==
    entry' = IF history
             THEN [entry EXCEPT ![t].accepted =
                      <<[q |-> q, tracker |-> tracker, bp |-> bp, rendered |-> rendered]>>]
             ELSE entry

\* Leaving the processing loop: on to the finally block of the method.
LoopExit(t) == Goto(t, IF fn[t] = "start" THEN "sp_fin" ELSE "cp_fin")

\* image_paths, each path valid (TRUE) or not (FALSE): validate_image_file,
\* or an exception while the item is built (processor.py lines 119, 161).
Paths == UNION {[1..n -> BOOLEAN] : n \in 0..MaxBatch}

\* item.output_path of a job, and the messages of the two failures.
OutPath == "out.png"
FailedAt == "Failed at stage"
Unexpected == "Unexpected error at stage"

\* What happens inside process_single_image between the two status updates:
\* success, an ImageProcessingError, or any other exception.
Outcomes == {"ok", "error", "unexpected"}

\* str(e) of an ImageProcessingError a pipeline stage raises.
StageError == "stage error"

\* Where start_processing is after the preview job ran with an outcome.
StoreAt == [o \in Outcomes |-> "pv_store_" \o o]

\* The number of valid paths in a list.
RECURSIVE CountValid(_)
CountValid(paths) ==
    IF paths = <<>> THEN 0
    ELSE (IF Head(paths) THEN 1 ELSE 0) + CountValid(Tail(paths))

\* add_images(image_paths), lines 107-115: an empty list is rejected
AddJobs(t, paths) ==
    /\ pc[t] = "idle"
    /\ arrivals + CountValid(paths) <= MaxJobs
    /\ IF paths = <<>>
       THEN Return(t, "ValidationError") /\ UNCHANGED adding
       ELSE /\ Step(t, "aj_next", 0, "none", "none")
            /\ image_paths' = paths
            /\ valid_count' = 0
    /\ UNCHANGED <<q, tracker, arrivals, bp, rendered, config, gc, harness>>
    /\ EnterWith(t, "add_images", paths)

\* lines 117-153: the next path is skipped if invalid, else its job gets a
\* fresh id and is enqueued; lines 165-174 once the list is exhausted
AjNext(t) ==
    /\ pc[t] = "aj_next"
    /\ IF image_paths = <<>>
       THEN /\ Return(t, IF valid_count = 0 THEN "ValidationError" ELSE "ok")
            /\ valid_count' = 0
            /\ UNCHANGED <<q, arrivals, image_paths>>
       ELSE /\ image_paths' = Tail(image_paths)
            /\ IF Head(image_paths)
               THEN /\ q' = enqueue(q, ImageQueueItem(arrivals + 1, 0))
                    /\ arrivals' = arrivals + 1
                    /\ Step(t, "aj_track", arrivals + 1, fn[t], result[t])
               ELSE /\ Goto(t, "aj_next")
                    /\ UNCHANGED <<q, arrivals>>
            /\ UNCHANGED valid_count
    /\ UNCHANGED <<tracker, bp, rendered, config, gc, harness, entry>>

\* add_images that enqueues a job without registering its status
AjTrackSkipped(t) ==
    /\ pc[t] = "aj_track"
    /\ valid_count' = valid_count + 1
    /\ Step(t, "aj_next", 0, fn[t], result[t])
    /\ UNCHANGED <<q, tracker, arrivals, bp, rendered, image_paths, config, gc, harness, entry>>

\* lines 156-158: the job is registered with the tracker (its id is fresh, so
\* add_image does not raise)
AjTrack(t) ==
    /\ pc[t] = "aj_track"
    /\ tracker' = add_image(tracker, queue_item[t], now).T
    /\ valid_count' = valid_count + 1
    /\ Step(t, "aj_next", 0, fn[t], result[t])
    /\ UNCHANGED <<q, arrivals, bp, rendered, image_paths, config, gc, harness, entry>>

\* SpEmpty without the check of the queue.
SpEmptyUnchecked(t) ==
    /\ Step(t, "sp_busy", 0, "start", "none")
    /\ UNCHANGED <<q, tracker, arrivals, bp, rendered, config, gc, adding, harness>>

\* start_processing, lines 476-479: the queue-empty check
SpEmpty(t) ==
    /\ IF size(q) = 0
       THEN Return(t, "BatchProcessingError")
       ELSE Step(t, "sp_busy", 0, "start", "none")
    /\ UNCHANGED <<q, tracker, arrivals, bp, rendered, config, gc, adding, harness>>

\* A thread calls start_processing().
Start(t) ==
    /\ pc[t] = "idle"
    /\ SpEmpty(t)
    /\ Enter(t, "start_processing")

\* resume_processing, line 769: its call of start_processing()
ResumeStart(t) ==
    /\ pc[t] = "sp_empty"
    /\ SpEmpty(t)
    /\ UNCHANGED entry

\* SpBusy going on whatever the processing flag says.
SpBusyIgnored(t) ==
    /\ pc[t] = "sp_busy"
    /\ Goto(t, "sp_gate")
    /\ UNCHANGED <<q, tracker, arrivals, bp, rendered, config, gc, adding, harness, entry>>

\* lines 482-484: already processing
SpBusy(t) ==
    /\ pc[t] = "sp_busy"
    /\ IF bp.processing THEN Return(t, "warning") ELSE Goto(t, "sp_gate")
    /\ UNCHANGED <<q, tracker, arrivals, bp, rendered, config, gc, adding, harness, entry>>

\* lines 487-489: a preview is waiting for approval
SpGate(t) ==
    /\ pc[t] = "sp_gate"
    /\ IF preview_mode /\ bp.preview_processed /\ ~bp.preview_approved
       THEN Return(t, "ok")
       ELSE Goto(t, "sp_set_processing")
    /\ UNCHANGED <<q, tracker, arrivals, bp, rendered, config, gc, adding, harness, entry>>

\* line 496
SpSetProcessing(t) ==
    /\ pc[t] = "sp_set_processing"
    /\ bp' = [bp EXCEPT !.processing = TRUE]
    /\ Goto(t, "sp_set_cancelled")
    /\ UNCHANGED <<q, tracker, arrivals, rendered, config, gc, adding, harness, entry>>

\* line 497
SpSetCancelled(t) ==
    /\ pc[t] = "sp_set_cancelled"
    /\ bp' = [bp EXCEPT !.cancelled = FALSE]
    /\ Goto(t, "sp_set_paused")
    /\ UNCHANGED <<q, tracker, arrivals, rendered, config, gc, adding, harness, entry>>

\* line 498
SpSetPaused(t) ==
    /\ pc[t] = "sp_set_paused"
    /\ bp' = [bp EXCEPT !.paused = FALSE]
    /\ Goto(t, "sp_branch")
    /\ UNCHANGED <<q, tracker, arrivals, rendered, config, gc, adding, harness, entry>>

\* start_processing that takes the preview branch whatever the configuration
SpBranchPreview(t) ==
    /\ pc[t] = "sp_branch"
    /\ Goto(t, IF ~bp.preview_processed THEN "pv_deq" ELSE "lp_test")
    /\ UNCHANGED <<q, tracker, arrivals, bp, rendered, config, gc, adding, harness, entry>>

\* SpBranch always taking the loop.
SpBranchLoop(t) ==
    /\ pc[t] = "sp_branch"
    /\ Goto(t, "lp_test")
    /\ UNCHANGED <<q, tracker, arrivals, bp, rendered, config, gc, adding, harness, entry>>

\* line 507: the preview branch or the loop
SpBranch(t) ==
    /\ pc[t] = "sp_branch"
    /\ Goto(t, IF preview_mode /\ ~bp.preview_processed THEN "pv_deq" ELSE "lp_test")
    /\ UNCHANGED <<q, tracker, arrivals, bp, rendered, config, gc, adding, harness, entry>>

\* queue_item = self.queue.dequeue() at `at`; None leads to `none`, an item
\* to `some`.
DequeueAt(t, at, none, some) ==
    /\ pc[t] = at
    /\ \E d \in {dequeue(q)} :
          /\ q' = d.Q
          /\ IF d.ret = <<>>
             THEN Step(t, none, 0, fn[t], result[t])
             ELSE Step(t, some, d.ret[1].id, fn[t], result[t])
    /\ gc' = [gc EXCEPT ![t] = IF dequeue(q).ret = <<>> THEN @ ELSE NoJob]
    /\ UNCHANGED <<tracker, arrivals, bp, rendered, config, adding, harness, entry>>

\* process_single_image, lines 202-209: mark the job as processing (an
\* exception of update_status is logged and swallowed)
MarkAt(t, at, next) ==
    /\ pc[t] = at
    /\ tracker' = update_status(tracker, queue_item[t], PROCESSING, NoStr, NoStr, now).T
    /\ Goto(t, next)
    /\ UNCHANGED <<q, arrivals, bp, rendered, config, gc, adding, harness, entry>>

\* Recorded with the expected failure recorded as a cancellation.
RecordedCancelOnError(T, id, o) ==
    IF o = "ok" THEN update_status(T, id, COMPLETED, NoStr, OutPath, now).T
    ELSE IF o = "error" THEN update_status(T, id, CANCELLED, FailedAt, NoStr, now).T
    ELSE update_status(T, id, FAILED, Unexpected, NoStr, now).T

\* The status process_single_image records for an outcome, lines 406-445.
Recorded(T, id, o) ==
    IF o = "ok" THEN update_status(T, id, COMPLETED, NoStr, OutPath, now).T
    ELSE IF o = "error" THEN update_status(T, id, FAILED, FailedAt, NoStr, now).T
    ELSE update_status(T, id, FAILED, Unexpected, NoStr, now).T

\* memory_manager.trigger_gc_if_needed() called by thread t after the job it
\* executed: one more threshold check is counted for that job.
trigger_gc_if_needed(g, t) ==
    IF g[t] = NoJob THEN g
    ELSE [g EXCEPT ![t] = <<[during |-> g[t][1].during, after |-> g[t][1].after + 1]>>]

\* process_single_image, lines 214-456: the pipeline runs with outcome o and
\* the status is recorded; the method returns (ok) or raises
\* ImageProcessingError (both failures).
RenderAt(t, at, o, next) ==
    /\ pc[t] = at
    /\ tracker' = Recorded(tracker, queue_item[t], o)
    /\ rendered' = [rendered EXCEPT ![queue_item[t]] = @ + 1]
    /\ Goto(t, next)
    /\ \E n \in (IF o = "error" THEN {0, 1} ELSE {0}) :
          gc' = [gc EXCEPT ![t] = <<[during |-> n, after |-> 0]>>]
    /\ UNCHANGED <<q, arrivals, bp, config, adding, harness, entry>>

\* line 509: the preview job is dequeued
PvDequeue(t) == DequeueAt(t, "pv_deq", "sp_fin", "pv_mark")

\* line 521: process_single_image(queue_item) for the preview
PvMark(t) == MarkAt(t, "pv_mark", "pv_render")

PvRender(t, o) == RenderAt(t, "pv_render", o, StoreAt[o])

\* lines 524-535 (success) and 555-567 (ImageProcessingError): the result
\* with the job's status object (None if get_status raises), and with the
\* output path or str(e) of the error raised
PvStore(t) ==
    /\ \E o \in Outcomes :
          /\ pc[t] = StoreAt[o]
          /\ bp' = [bp EXCEPT !.preview_result =
                      <<[image_id    |-> queue_item[t],
                         status      |-> get_status(tracker, queue_item[t]).ret,
                         output_path |-> IF o = "ok" THEN OutPath ELSE NoStr,
                         error       |-> IF o = "ok" THEN NoStr
                                         ELSE IF o = "error" THEN StageError
                                         ELSE Unexpected]>>]
    /\ Goto(t, "pv_flag")
    /\ UNCHANGED <<q, tracker, arrivals, rendered, config, gc, adding, harness, entry>>

\* a preview branch that opens the gate only when the preview job succeeded
PvFlagOnSuccess(t) ==
    /\ pc[t] = "pv_flag"
    /\ bp' = IF bp.preview_result[1].error = NoStr
             THEN [bp EXCEPT !.preview_processed = TRUE]
             ELSE bp
    /\ Goto(t, "pv_gc")
    /\ UNCHANGED <<q, tracker, arrivals, rendered, config, gc, adding, harness, entry>>

\* lines 537 and 568
PvFlag(t) ==
    /\ pc[t] = "pv_flag"
    /\ bp' = [bp EXCEPT !.preview_processed = TRUE]
    /\ Goto(t, "pv_gc")
    /\ UNCHANGED <<q, tracker, arrivals, rendered, config, gc, adding, harness, entry>>

\* lines 604-609: trigger_gc_if_needed(), then return through finally
PvGc(t) ==
    /\ pc[t] = "pv_gc"
    /\ Step(t, "sp_fin", 0, fn[t], result[t])
    /\ gc' = trigger_gc_if_needed(gc, t)
    /\ UNCHANGED <<q, tracker, arrivals, bp, rendered, config, adding, harness, entry>>

\* lines 613 and 929: while self.queue.size() > 0
LpTest(t) ==
    /\ pc[t] = "lp_test"
    /\ IF size(q) > 0 THEN Goto(t, "lp_pause") ELSE LoopExit(t)
    /\ UNCHANGED <<q, tracker, arrivals, bp, rendered, config, gc, adding, harness, entry>>

\* a loop that does not look at the pause flag
LpPauseIgnored(t) ==
    /\ pc[t] = "lp_pause"
    /\ Goto(t, "lp_cancel")
    /\ UNCHANGED <<q, tracker, arrivals, bp, rendered, config, gc, adding, harness, entry>>

\* lines 615-617 and 931-933: if self._paused: break
LpPause(t) ==
    /\ pc[t] = "lp_pause"
    /\ IF bp.paused THEN LoopExit(t) ELSE Goto(t, "lp_cancel")
    /\ UNCHANGED <<q, tracker, arrivals, bp, rendered, config, gc, adding, harness, entry>>

\* a loop that does not look at the cancel flag
LpCancelIgnored(t) ==
    /\ pc[t] = "lp_cancel"
    /\ Goto(t, "lp_deq")
    /\ UNCHANGED <<q, tracker, arrivals, bp, rendered, config, gc, adding, harness, entry>>

\* lines 620 and 936: if self._cancelled
LpCancel(t) ==
    /\ pc[t] = "lp_cancel"
    /\ Goto(t, IF bp.cancelled THEN "dr_test" ELSE "lp_deq")
    /\ UNCHANGED <<q, tracker, arrivals, bp, rendered, config, gc, adding, harness, entry>>

\* lines 623 and 939: while self.queue.size() > 0, else break
DrTest(t) ==
    /\ pc[t] = "dr_test"
    /\ IF size(q) > 0 THEN Goto(t, "dr_deq") ELSE LoopExit(t)
    /\ UNCHANGED <<q, tracker, arrivals, bp, rendered, config, gc, adding, harness, entry>>

\* lines 624-625 and 940-941: item = self.queue.dequeue(); if item
DrDequeue(t) == DequeueAt(t, "dr_deq", "dr_test", "dr_mark")

\* ApplyUpdate to every id of a set.
RECURSIVE UpdateAll(_, _, _)
UpdateAll(T, ids, state) ==
    IF ids = {} THEN T
    ELSE LET i == CHOOSE x \in ids : TRUE
         IN UpdateAll(update_status(T, i, state, NoStr, NoStr, now).T, ids \ {i}, state)

\* DrMark marking every tracked job cancelled, not only the dequeued one.
DrMarkAll(t) ==
    /\ pc[t] = "dr_mark"
    /\ tracker' = UpdateAll(tracker, Tracked(tracker), CANCELLED)
    /\ Step(t, "dr_test", 0, fn[t], result[t])
    /\ UNCHANGED <<q, arrivals, bp, rendered, config, gc, adding, harness, entry>>

\* lines 626-629 and 942-945: the dequeued job is marked cancelled; a
\* KeyError of update_status (add_images has enqueued the job and not yet
\* registered it) leaves the method through its finally block
DrMark(t) ==
    /\ pc[t] = "dr_mark"
    /\ \E r \in {update_status(tracker, queue_item[t], CANCELLED, NoStr, NoStr, now)} :
          /\ tracker' = r.T
          /\ IF r.err = "none"
             THEN Step(t, "dr_test", 0, fn[t], result[t])
             ELSE Step(t, IF fn[t] = "start" THEN "sp_fin" ELSE "cp_fin",
                       0, fn[t], r.err)
    /\ UNCHANGED <<q, arrivals, bp, rendered, config, gc, adding, harness, entry>>

\* lines 633-635 and 949-951: the next job is dequeued
LpDequeue(t) ==
    /\ pc[t] = "lp_deq"
    /\ \E d \in {dequeue(q)} :
          /\ q' = d.Q
          /\ IF d.ret = <<>> THEN LoopExit(t)
             ELSE Step(t, "lp_mark", d.ret[1].id, fn[t], result[t])
    /\ gc' = [gc EXCEPT ![t] = IF dequeue(q).ret = <<>> THEN @ ELSE NoJob]
    /\ UNCHANGED <<tracker, arrivals, bp, rendered, config, adding, harness, entry>>

\* a loop that marks the job it dequeued cancelled when the cancel flag was
\* set meanwhile, and executes it all the same
LpMarkCancelled(t) ==
    /\ pc[t] = "lp_mark"
    /\ tracker' = update_status(tracker, queue_item[t],
                                IF bp.cancelled THEN CANCELLED ELSE PROCESSING,
                                NoStr, NoStr, now).T
    /\ Goto(t, "lp_render")
    /\ UNCHANGED <<q, arrivals, bp, rendered, config, gc, adding, harness, entry>>

\* lines 657 and 971: process_single_image(queue_item) in the loop
LpMark(t) == MarkAt(t, "lp_mark", "lp_render")

\* LpRender with a failure ending the loop.
LpRenderAbort(t, o) ==
    RenderAt(t, "lp_render", o, IF o = "ok" THEN "lp_gc" ELSE "sp_fin")

\* a loop that abandons the job it is executing once the cancel flag is set
LpRenderPreempted(t, o) ==
    IF bp.cancelled
    THEN /\ pc[t] = "lp_render"
         /\ Goto(t, "dr_test")
         /\ UNCHANGED <<q, tracker, arrivals, bp, rendered, config, gc, adding, harness, entry>>
    ELSE RenderAt(t, "lp_render", o, "lp_gc")

\* a loop that skips the threshold check after a failed job
LpRenderGcOnSuccess(t, o) ==
    RenderAt(t, "lp_render", o, IF o = "ok" THEN "lp_gc" ELSE "lp_test")

LpRender(t, o) == RenderAt(t, "lp_render", o, "lp_gc")

\* lines 688-691 and 1001-1004: trigger_gc_if_needed(), back to the loop test
LpGc(t) ==
    /\ pc[t] = "lp_gc"
    /\ Step(t, "lp_test", 0, fn[t], result[t])
    /\ gc' = trigger_gc_if_needed(gc, t)
    /\ UNCHANGED <<q, tracker, arrivals, bp, rendered, config, adding, harness, entry>>

\* start_processing, lines 725-728: finally
SpFin(t) ==
    /\ pc[t] = "sp_fin"
    /\ bp' = IF ~(preview_mode /\ bp.preview_processed /\ ~bp.preview_approved)
             THEN [bp EXCEPT !.processing = FALSE]
             ELSE bp
    /\ Return(t, IF result[t] = "none" THEN "ok" ELSE result[t])
    /\ UNCHANGED <<q, tracker, arrivals, rendered, config, gc, adding, harness, entry>>

\* Pause without the check of the processing flag.
PauseAlways(t) ==
    /\ pc[t] = "idle"
    /\ Step(t, "pa_paused", 0, "none", "none")
    /\ UNCHANGED <<q, tracker, arrivals, bp, rendered, config, gc, adding, harness>>
    /\ Enter(t, "pause_processing")

\* pause_processing, lines 744-746
Pause(t) ==
    /\ pc[t] = "idle"
    /\ IF ~bp.processing THEN Return(t, "warning")
       ELSE Step(t, "pa_paused", 0, "none", "none")
    /\ UNCHANGED <<q, tracker, arrivals, bp, rendered, config, gc, adding, harness>>
    /\ Enter(t, "pause_processing")

\* lines 748-750
PaPaused(t) ==
    /\ pc[t] = "pa_paused"
    /\ IF bp.paused THEN Return(t, "warning") ELSE Goto(t, "pa_set")
    /\ UNCHANGED <<q, tracker, arrivals, bp, rendered, config, gc, adding, harness, entry>>

\* line 753
PaSet(t) ==
    /\ pc[t] = "pa_set"
    /\ bp' = [bp EXCEPT !.paused = TRUE]
    /\ Return(t, "ok")
    /\ Accept(t)
    /\ UNCHANGED <<q, tracker, arrivals, rendered, config, gc, adding, harness>>

\* resume_processing, lines 761-763
Resume(t) ==
    /\ pc[t] = "idle"
    /\ IF ~bp.paused THEN Return(t, "warning")
       ELSE Step(t, "re_set", 0, "none", "none")
    /\ UNCHANGED <<q, tracker, arrivals, bp, rendered, config, gc, adding, harness>>
    /\ Enter(t, "resume_processing")

\* line 766
ReSet(t) ==
    /\ pc[t] = "re_set"
    /\ bp' = [bp EXCEPT !.paused = FALSE]
    /\ Goto(t, "sp_empty")
    /\ UNCHANGED <<q, tracker, arrivals, rendered, config, gc, adding, harness, entry>>

\* Cancel without the check of the processing flag.
CancelAlways(t) ==
    /\ pc[t] = "idle"
    /\ Step(t, "ca_cancelled", 0, "none", "none")
    /\ UNCHANGED <<q, tracker, arrivals, bp, rendered, config, gc, adding, harness>>
    /\ Enter(t, "cancel_processing")

\* cancel_processing, lines 777-779
Cancel(t) ==
    /\ pc[t] = "idle"
    /\ IF ~bp.processing THEN Return(t, "warning")
       ELSE Step(t, "ca_cancelled", 0, "none", "none")
    /\ UNCHANGED <<q, tracker, arrivals, bp, rendered, config, gc, adding, harness>>
    /\ Enter(t, "cancel_processing")

\* lines 781-783
CaCancelled(t) ==
    /\ pc[t] = "ca_cancelled"
    /\ IF bp.cancelled THEN Return(t, "warning") ELSE Goto(t, "ca_set")
    /\ UNCHANGED <<q, tracker, arrivals, bp, rendered, config, gc, adding, harness, entry>>

\* line 786
CaSet(t) ==
    /\ pc[t] = "ca_set"
    /\ bp' = [bp EXCEPT !.cancelled = TRUE]
    /\ Return(t, "ok")
    /\ Accept(t)
    /\ UNCHANGED <<q, tracker, arrivals, rendered, config, gc, adding, harness>>

\* approve_preview, lines 859-867
Approve(t) ==
    /\ pc[t] = "idle"
    /\ IF ~preview_mode \/ ~bp.preview_processed
       THEN Return(t, "BatchProcessingError")
       ELSE Step(t, "ap_approved", 0, "continue", "none")
    /\ UNCHANGED <<q, tracker, arrivals, bp, rendered, config, gc, adding, harness>>
    /\ Enter(t, "approve_preview")

\* lines 869-871
ApApproved(t) ==
    /\ pc[t] = "ap_approved"
    /\ IF bp.preview_approved THEN Return(t, "warning") ELSE Goto(t, "ap_set")
    /\ UNCHANGED <<q, tracker, arrivals, bp, rendered, config, gc, adding, harness, entry>>

\* approve_preview that returns to the loop without recording the approval
ApSetSkipped(t) ==
    /\ pc[t] = "ap_set"
    /\ Goto(t, "cp_empty")
    /\ UNCHANGED <<q, tracker, arrivals, bp, rendered, config, gc, adding, harness, entry>>

\* line 874
ApSet(t) ==
    /\ pc[t] = "ap_set"
    /\ bp' = [bp EXCEPT !.preview_approved = TRUE]
    /\ Goto(t, "cp_empty")
    /\ UNCHANGED <<q, tracker, arrivals, rendered, config, gc, adding, harness, entry>>

\* _continue_after_preview resetting the cancel and pause flags before its
\* loop, as start_processing does
CpEmptyResetFlags(t) ==
    /\ pc[t] = "cp_empty"
    /\ IF size(q) = 0 THEN Return(t, "ok") ELSE Goto(t, "lp_test")
    /\ bp' = IF size(q) = 0 THEN bp
             ELSE [bp EXCEPT !.cancelled = FALSE, !.paused = FALSE]
    /\ UNCHANGED <<q, tracker, arrivals, rendered, config, gc, adding, harness, entry>>

\* _continue_after_preview, lines 917-919: return before the try block
CpEmpty(t) ==
    /\ pc[t] = "cp_empty"
    /\ IF size(q) = 0 THEN Return(t, "ok") ELSE Goto(t, "lp_test")
    /\ UNCHANGED <<q, tracker, arrivals, bp, rendered, config, gc, adding, harness, entry>>

\* _continue_after_preview, lines 1023-1025: finally
CpFin(t) ==
    /\ pc[t] = "cp_fin"
    /\ bp' = [bp EXCEPT !.processing = FALSE]
    /\ Return(t, IF result[t] = "none" THEN "ok" ELSE result[t])
    /\ UNCHANGED <<q, tracker, arrivals, rendered, config, gc, adding, harness, entry>>

\* reject_preview that checks the mode only
RejectAnyTime(t) ==
    /\ pc[t] = "idle"
    /\ IF ~preview_mode
       THEN Return(t, "BatchProcessingError")
       ELSE Step(t, "rj_processed", 0, "none", "none")
    /\ UNCHANGED <<q, tracker, arrivals, bp, rendered, config, gc, adding, harness>>
    /\ Enter(t, "reject_preview")

\* reject_preview, lines 891-899
Reject(t) ==
    /\ pc[t] = "idle"
    /\ IF ~preview_mode \/ ~bp.preview_processed
       THEN Return(t, "BatchProcessingError")
       ELSE Step(t, "rj_processed", 0, "none", "none")
    /\ UNCHANGED <<q, tracker, arrivals, bp, rendered, config, gc, adding, harness>>
    /\ Enter(t, "reject_preview")

\* line 904
RjProcessed(t) ==
    /\ pc[t] = "rj_processed"
    /\ bp' = [bp EXCEPT !.preview_processed = FALSE]
    /\ Goto(t, "rj_approved")
    /\ UNCHANGED <<q, tracker, arrivals, rendered, config, gc, adding, harness, entry>>

\* line 905
RjApproved(t) ==
    /\ pc[t] = "rj_approved"
    /\ bp' = [bp EXCEPT !.preview_approved = FALSE]
    /\ Goto(t, "rj_result")
    /\ UNCHANGED <<q, tracker, arrivals, rendered, config, gc, adding, harness, entry>>

\* RjResult keeping the preview result.
RjResultKept(t) ==
    /\ pc[t] = "rj_result"
    /\ Return(t, "ok")
    /\ UNCHANGED <<q, tracker, arrivals, bp, rendered, config, gc, adding, harness, entry>>

\* line 906
RjResult(t) ==
    /\ pc[t] = "rj_result"
    /\ bp' = [bp EXCEPT !.preview_result = <<>>]
    /\ Return(t, "ok")
    /\ UNCHANGED <<q, tracker, arrivals, rendered, config, gc, adding, harness, entry>>

\* is_waiting_for_preview_approval, lines 827-834
is_waiting_for_preview_approval(b) == b.preview_processed /\ ~b.preview_approved

\* get_preview_result, lines 836-847 (<<>>: None)
get_preview_result(b) == b.preview_result

\* BatchProcessor.get_status(), lines 788-816: the flags, the queue size and
\* the counts of the summary.
processor_get_status(b, Q, T) ==
    [is_processing |-> b.processing,
     is_paused     |-> b.paused,
     is_cancelled  |-> b.cancelled,
     queue_size    |-> size(Q),
     total_images  |-> get_summary(T).total,
     completed     |-> get_summary(T).completed,
     failed        |-> get_summary(T).failed,
     pending       |-> get_summary(T).pending,
     processing    |-> get_summary(T).processing,
     cancelled     |-> get_summary(T).cancelled]

Init ==
    /\ q = NewQueue
    /\ tracker = NewTracker
    /\ now = 1
    /\ lastOp = NoOp
    /\ raised = "none"
    /\ arrivals = 0
    /\ calls = 0
    /\ phase = "fill"
    /\ out = <<>>
    /\ preview_mode \in BOOLEAN
    /\ history = FALSE
    /\ InitOrch

\* The calls the caller makes, each up to its first read of shared state.
Calls ==
    \/ \E paths \in Paths : AddJobs(Caller, paths)
    \/ Pause(Caller) \/ Resume(Caller) \/ Cancel(Caller)
    \/ Approve(Caller) \/ Reject(Caller)

\* A call of start_processing by thread t, and the next statement of the
\* method thread t is in.
Steps(t) ==
    \/ Start(t) \/ ResumeStart(t) \/ SpBusy(t) \/ SpGate(t)
    \/ SpSetProcessing(t) \/ SpSetCancelled(t) \/ SpSetPaused(t) \/ SpBranch(t)
    \/ PvDequeue(t) \/ PvMark(t) \/ (\E o \in Outcomes : PvRender(t, o))
    \/ PvStore(t) \/ PvFlag(t) \/ PvGc(t)
    \/ LpTest(t) \/ LpPause(t) \/ LpCancel(t)
    \/ DrTest(t) \/ DrDequeue(t) \/ DrMark(t)
    \/ LpDequeue(t) \/ LpMark(t) \/ (\E o \in Outcomes : LpRender(t, o)) \/ LpGc(t)
    \/ SpFin(t)
    \/ AjNext(t) \/ AjTrack(t)
    \/ PaPaused(t) \/ PaSet(t)
    \/ ReSet(t)
    \/ CaCancelled(t) \/ CaSet(t)
    \/ ApApproved(t) \/ ApSet(t) \/ CpEmpty(t) \/ CpFin(t)
    \/ RjProcessed(t) \/ RjApproved(t) \/ RjResult(t)

Next == Calls \/ \E t \in Threads : Steps(t)

\* The processor called from the caller's thread while a thread it spawned
\* runs start_processing, interleaved statement by statement.
Spec == Init /\ [][Next]_vars

\* The processor used from one thread only (batch_colorize.py): every call
\* runs to its end before the next one is made.
NextCaller == Calls \/ Steps(Caller)

\* As Init, with the state at the start of every call recorded.
InitCaller ==
    /\ q = NewQueue
    /\ tracker = NewTracker
    /\ now = 1
    /\ lastOp = NoOp
    /\ raised = "none"
    /\ arrivals = 0
    /\ calls = 0
    /\ phase = "fill"
    /\ out = <<>>
    /\ preview_mode \in BOOLEAN
    /\ history = TRUE
    /\ InitOrch

SpecCaller == InitCaller /\ [][NextCaller]_vars

\* demo_cancel: a processor without preview mode; the caller queues jobs and
\* cancels, a thread it spawned runs start_processing.
InitCancel ==
    /\ q = NewQueue
    /\ tracker = NewTracker
    /\ now = 1
    /\ lastOp = NoOp
    /\ raised = "none"
    /\ arrivals = 0
    /\ calls = 0
    /\ phase = "fill"
    /\ out = <<>>
    /\ preview_mode = FALSE
    /\ history = TRUE
    /\ InitOrch

NextCancel ==
    \/ \E paths \in Paths : AddJobs(Caller, paths)
    \/ AjNext(Caller) \/ AjTrack(Caller)
    \/ Cancel(Caller) \/ CaCancelled(Caller) \/ CaSet(Caller)
    \/ \E t \in Threads \ {Caller} :
          \/ Start(t) \/ SpBusy(t) \/ SpGate(t)
          \/ SpSetProcessing(t) \/ SpSetCancelled(t) \/ SpSetPaused(t) \/ SpBranch(t)
          \/ LpTest(t) \/ LpPause(t) \/ LpCancel(t)
          \/ DrTest(t) \/ DrDequeue(t) \/ DrMark(t)
          \/ LpDequeue(t) \/ LpMark(t) \/ (\E o \in Outcomes : LpRender(t, o)) \/ LpGc(t)
          \/ SpFin(t)

SpecCancel == InitCancel /\ [][NextCancel]_vars

\* demo_pause_resume: the spawned thread's single call of start_processing().
StartOnce(t) == entry[t] = NoEntry /\ Start(t)

\* demo_pause_resume: a processor without preview mode; the caller queues
\* jobs, pauses and resumes (resume_processing runs start_processing on the
\* caller's thread); the thread it spawned calls start_processing once.
NextPause ==
    \/ \E paths \in Paths : AddJobs(Caller, paths)
    \/ AjNext(Caller) \/ AjTrack(Caller)
    \/ Pause(Caller) \/ PaPaused(Caller) \/ PaSet(Caller)
    \/ Resume(Caller) \/ ReSet(Caller) \/ ResumeStart(Caller)
    \/ \E t \in Threads \ {Caller} : StartOnce(t)
    \/ \E t \in Threads :
          \/ SpBusy(t) \/ SpGate(t)
          \/ SpSetProcessing(t) \/ SpSetCancelled(t) \/ SpSetPaused(t) \/ SpBranch(t)
          \/ LpTest(t) \/ LpPause(t) \/ LpCancel(t)
          \/ LpDequeue(t) \/ LpMark(t) \/ (\E o \in Outcomes : LpRender(t, o)) \/ LpGc(t)
          \/ SpFin(t)

SpecPause == InitCancel /\ [][NextPause]_vars

(***************************************************************************)
(* Properties of the ImageQueue                                            *)
(***************************************************************************)

\* s is in dequeue order: non-increasing priority, arrival order among equals.
InDequeueOrder(s) ==
    \A i, j \in 1..Len(s) :
        i < j => \/ s[i].priority > s[j].priority
                 \/ (s[i].priority = s[j].priority /\ s[i].id < s[j].id)

\* x is the job of highest priority in s and, among those, the earliest.
IsBest(x, s) ==
    /\ \E k \in 1..Len(s) : s[k] = x
    /\ \A k \in 1..Len(s) :
          \/ x.priority > s[k].priority
          \/ (x.priority = s[k].priority /\ x.id <= s[k].id)

\* s without its element x
Without(s, x) == SelectSeq(s, LAMBDA y : y # x)

\* C1: after any run of enqueues on an empty queue, the jobs dequeued until
\* the queue is empty come out in non-increasing priority, jobs of equal
\* priority in the order they were enqueued, and every job comes out.
C1_FillDrainOrder ==
    /\ InDequeueOrder(out)
    /\ (phase = "drain" /\ size(q) = 0) => Len(out) = arrivals

\* A(0), B(2), C(0) were enqueued and came out B, A, C.
C1_Witness ==
    /\ phase = "drain" /\ size(q) = 0
    /\ out = <<ImageQueueItem(2, 2), ImageQueueItem(1, 0), ImageQueueItem(3, 0)>>

\* C2: under any interleaving of enqueue, dequeue, peek and clear the held
\* list is sorted by non-increasing priority with equal priorities in arrival
\* order and size() is the number of held jobs; every dequeue() returns the
\* best held job (highest priority, earliest among those) and removes it.
C2_SortedAndBest ==
    /\ [](InDequeueOrder(q.queue) /\ size(q) = Len(q.queue))
    /\ [][(lastOp'.op = "dequeue" /\ Len(q.queue) > 0) =>
             /\ Len(lastOp'.ret) = 1
             /\ IsBest(lastOp'.ret[1], q.queue)
             /\ q'.queue = Without(q.queue, lastOp'.ret[1])]_vars

\* A dequeue returned a job that arrived after a job still held, with a job
\* enqueued after an earlier dequeue.
C2_Witness ==
    /\ lastOp.op = "dequeue" /\ Len(lastOp.ret) = 1
    /\ size(q) >= 2
    /\ \E k \in 1..Len(q.queue) : q.queue[k].id < lastOp.ret[1].id
    /\ arrivals = MaxEnq

\* C3: peek() leaves the queue as it is and returns the job the next
\* dequeue() returns; on an empty queue dequeue() and peek() return None and
\* leave the queue empty with size 0.
C3_PeekIsNextDequeue ==
    [][/\ lastOp'.op = "peek" => q' = q
       /\ (lastOp.op = "peek" /\ lastOp'.op = "dequeue") => lastOp'.ret = lastOp.ret
       /\ (lastOp'.op \in {"peek", "dequeue"} /\ Len(q.queue) = 0) =>
             (lastOp'.ret = <<>> /\ q' = q /\ size(q') = 0)
       /\ (lastOp'.op = "peek" /\ Len(q.queue) > 0) => Len(lastOp'.ret) = 1]_vars

\* A peek at a queue of two whose head arrived second.
C3_Witness ==
    /\ lastOp.op = "peek"
    /\ size(q) = 2
    /\ lastOp.ret = <<ImageQueueItem(2, 1)>>

(***************************************************************************)
(* Properties of the StatusTracker                                         *)
(***************************************************************************)

\* C4: in every reachable state of the tracker, also after failed calls,
\* pending + processing + completed + failed + cancelled = total, and total is
\* the number of tracked jobs.
C4_SummaryAddsUp ==
    LET s == get_summary(tracker)
    IN  /\ s.pending + s.processing + s.completed + s.failed + s.cancelled = s.total
        /\ s.total = Cardinality(Tracked(tracker))

\* Two jobs in different states, right after a call that failed.
C4_Witness ==
    /\ raised = "ValueError"
    /\ get_summary(tracker).total = 2
    /\ get_summary(tracker).failed = 1
    /\ get_summary(tracker).processing = 1

\* C7: the first update of a job into a terminal state stamps end_time with
\* the time of that call, and no later call changes a stamped end_time of a
\* tracked job (so a later terminal update leaves the original stamp).
C7_EndTimeStampedOnce ==
    [][\A i \in Tracked(tracker) \cap Tracked(tracker') :
          LET o == tracker.statuses[i]
              n == tracker'.statuses[i]
          IN  /\ o.end_time # NoTime => n.end_time = o.end_time
              /\ (o.end_time = NoTime /\ is_terminal_state(n.state)) =>
                     n.end_time = now
              /\ (o.end_time = NoTime /\ ~is_terminal_state(n.state)) =>
                     n.end_time = NoTime]_vars

\* A job that was terminal at time 1, went back to pending, started processing
\* at time 2 and was then updated into a terminal state again: end_time is
\* still 1.
C7_Witness ==
    /\ 1 \in Tracked(tracker)
    /\ tracker.statuses[1].state = FAILED
    /\ tracker.statuses[1].start_time = 2
    /\ tracker.statuses[1].end_time = 1

\* C8: batch_end_time is set only if every tracked job is in a terminal
\* state, and whenever at least one job is tracked and all tracked jobs are
\* terminal, batch_end_time is set.
C8_BatchEndIffAllTerminal ==
    LET allTerminal == \A i \in Tracked(tracker) :
                           is_terminal_state(tracker.statuses[i].state)
    IN  /\ tracker.batch_end_time # NoTime => allTerminal
        /\ (Tracked(tracker) # {} /\ allTerminal) => tracker.batch_end_time # NoTime

\* C9: a failing call leaves the tracker as it was: add_image of a tracked id
\* raises ValueError, update_status of an untracked id raises KeyError,
\* update_status with an unknown state raises ValueError, and in each case
\* every job's fields and the batch times are unchanged.
C9_ErrorsChangeNothing ==
    /\ [](/\ \A i \in Tracked(tracker) :
               add_image(tracker, i, now).err = "ValueError"
          /\ \A i \in Ids \ Tracked(tracker), s \in StateArgs, a \in OptArgs :
               update_status(tracker, i, s, a[1], a[2], now).err = "KeyError"
          /\ \A i \in Tracked(tracker), s \in StateArgs \ valid_states, a \in OptArgs :
               update_status(tracker, i, s, a[1], a[2], now).err = "ValueError")
    /\ [][(calls' # calls /\ raised' # "none") => tracker' = tracker]_vars

\* A call has just failed on a tracker that holds a finished job with its
\* stamps, message and path set.
C9_Witness ==
    /\ raised \in {"ValueError", "KeyError"}
    /\ \E i \in Tracked(tracker) :
          /\ tracker.statuses[i].end_time # NoTime
          /\ tracker.statuses[i].output_path # NoStr
    /\ tracker.batch_end_time # NoTime

(***************************************************************************)
(* Properties of the BatchProcessor                                        *)
(***************************************************************************)

StateOf(T, i) == T.statuses[i].state

\* The jobs tracked before and after a step.
Kept == Tracked(tracker) \cap Tracked(tracker')

\* Every change of a tracked job's state in a step is one of `allowed`.
ChangesWithin(allowed) ==
    \A i \in Kept :
        StateOf(tracker, i) # StateOf(tracker', i)
            => <<StateOf(tracker, i), StateOf(tracker', i)>> \in allowed

C6_TerminalStatesStay ==
    [][\A i \in Tracked(tracker) :
          is_terminal_state(StateOf(tracker, i))
              => /\ i \in Tracked(tracker')
                 /\ StateOf(tracker', i) = StateOf(tracker, i)]_vars

\* A job has finished and the loop has gone on to process the next one.
C6_Witness ==
    \E i, j \in Tracked(tracker) :
        /\ is_terminal_state(StateOf(tracker, i))
        /\ StateOf(tracker, j) = PROCESSING
        /\ \E t \in Threads : pc[t] = "lp_render" /\ queue_item[t] = j

\* The step is a call that returns at once with a warning and changes
\* neither the queue, nor a status, nor a flag, nor the preview state.
Refused(t) ==
    /\ pc'[t] = "idle"
    /\ result'[t] = "warning"
    /\ UNCHANGED <<q, tracker, bp>>

\* C10: Pause() with the processing flag false, Resume() with the paused flag
\* false, Cancel() with the processing flag false, Pause() that finds the
\* paused flag set and Cancel() that finds the cancelled flag set each return
\* with a warning, raise nothing and change neither the queue, nor any job
\* status, nor the flags, nor the preview state.
C10_RefusedControlCalls ==
    [][\A t \in Threads :
          /\ (Pause(t) /\ ~bp.processing) => Refused(t)
          /\ (Resume(t) /\ ~bp.paused) => Refused(t)
          /\ (Cancel(t) /\ ~bp.processing) => Refused(t)
          /\ (PaPaused(t) /\ bp.paused) => Refused(t)
          /\ (CaCancelled(t) /\ bp.cancelled) => Refused(t)]_vars

\* A control call was refused with jobs queued: before any start_processing
\* (no flag was ever set), the caller is back with a warning.
C10_Witness ==
    /\ pc[Caller] = "idle"
    /\ result[Caller] = "warning"
    /\ size(q) > 0
    /\ bp = NewProcessor
    /\ \A i \in Tracked(tracker) : StateOf(tracker, i) = PENDING

(***************************************************************************)
(* Properties of the calls of the BatchProcessor, one thread calling       *)
(***************************************************************************)

\* Thread t is back from a call of `call`, its latest.
Returned(t, call) == pc[t] = "idle" /\ entry[t].call = call

\* Since thread t made its latest call neither the queue, nor a status, nor a
\* flag, nor the preview state has changed, and no job was rendered.
NothingChanged(t) ==
    /\ q = entry[t].q
    /\ tracker = entry[t].tracker
    /\ bp = entry[t].bp
    /\ rendered = entry[t].rendered

\* C11: start_processing() called with the queue empty raises
\* BatchProcessingError, with preview mode on or off, and leaves the flags, the
\* preview state, the queue and every job status as they were.
C11_StartOnEmptyQueue ==
    \A t \in Threads :
        (Returned(t, "start_processing") /\ size(entry[t].q) = 0)
            => result[t] = "BatchProcessingError" /\ NothingChanged(t)

\* In preview mode, a batch was processed and start_processing() called again
\* on the empty queue.
C11_Witness ==
    /\ Returned(Caller, "start_processing")
    /\ size(entry[Caller].q) = 0
    /\ preview_mode
    /\ Tracked(tracker) # {}
    /\ result[Caller] = "BatchProcessingError"

\* C12: start_processing() called while the processing flag is set dequeues
\* and renders no job, runs no loop, and leaves the queue, every job status,
\* the flags and the preview state as they were; it returns with a warning
\* (with BatchProcessingError if the queue is empty).
C12_StartWhileProcessing ==
    \A t \in Threads :
        (Returned(t, "start_processing") /\ entry[t].bp.processing)
            => /\ NothingChanged(t)
               /\ result[t] = IF size(entry[t].q) = 0
                               THEN "BatchProcessingError" ELSE "warning"

\* start_processing() was called with jobs queued while the flag was set.
C12_Witness ==
    /\ Returned(Caller, "start_processing")
    /\ entry[Caller].bp.processing
    /\ size(entry[Caller].q) > 0
    /\ result[Caller] = "warning"

\* The ids of the jobs in a queue, in queue order.
IdsOf(Q) == [k \in 1..Len(Q.queue) |-> Q.queue[k].id]

\* The jobs in a queue, as a set of ids.
InQueue(Q) == {Q.queue[k].id : k \in 1..Len(Q.queue)}

\* Job i was rendered once since thread t made its call and is Completed
\* with its output path and no error, or Failed with an error and no output.
RanOnce(t, i) ==
    /\ i \in Tracked(tracker)
    /\ rendered[i] = entry[t].rendered[i] + 1
    /\ \/ /\ StateOf(tracker, i) = COMPLETED
          /\ tracker.statuses[i].output_path = OutPath
          /\ tracker.statuses[i].error_message = NoStr
       \/ /\ StateOf(tracker, i) = FAILED
          /\ tracker.statuses[i].output_path = NoStr
          /\ tracker.statuses[i].error_message \in {FailedAt, Unexpected}

\* Job i is as it was when thread t made its call.
Untouched(t, i) ==
    /\ rendered[i] = entry[t].rendered[i]
    /\ i \in Tracked(entry[t].tracker) <=> i \in Tracked(tracker)
    /\ i \in Tracked(tracker) => tracker.statuses[i] = entry[t].tracker.statuses[i]

\* C13: with preview mode off, start_processing() called with N >= 1 jobs
\* queued returns normally with every one of them rendered exactly once and
\* Completed or Failed according to its own outcome (so failed counts the
\* failures and completed the rest), no job Pending or Processing, the queue
\* empty, batch_end_time set and the processing flag false.
C13_FailureIsolation ==
    \A t \in Threads :
        (/\ Returned(t, "start_processing")
         /\ ~preview_mode
         /\ ~entry[t].bp.processing
         /\ size(entry[t].q) > 0)
        => /\ result[t] = "ok"
           /\ \A i \in InQueue(entry[t].q) : RanOnce(t, i)
           /\ \A i \in (1..MaxJobs) \ InQueue(entry[t].q) : Untouched(t, i)
           /\ get_summary(tracker).pending = 0
           /\ get_summary(tracker).processing = 0
           /\ get_summary(tracker).completed + get_summary(tracker).failed
                 = get_summary(tracker).total
           /\ size(q) = 0
           /\ q.queue = <<>>
           /\ tracker.batch_end_time # NoTime
           /\ ~bp.processing

\* Two jobs were queued; the first failed and the second was completed.
C13_Witness ==
    /\ Returned(Caller, "start_processing")
    /\ ~preview_mode
    /\ IdsOf(entry[Caller].q) = <<1, 2>>
    /\ StateOf(tracker, 1) = FAILED
    /\ StateOf(tracker, 2) = COMPLETED
    /\ result[Caller] = "ok"

\* C14: with preview mode on, start_processing() called with N >= 1 jobs
\* queued and no preview produced (the processing flag clear) dequeues exactly
\* the head of the queue, renders it once and returns with that job Completed
\* or Failed, the other N-1 jobs untouched, Pending and in the queue in the
\* same order, a preview result for the head captured, and
\* is_waiting_for_preview_approval() true.
C14_PreviewGate ==
    \A t \in Threads :
        (/\ Returned(t, "start_processing")
         /\ preview_mode
         /\ ~entry[t].bp.preview_processed
         /\ ~entry[t].bp.processing
         /\ size(entry[t].q) > 0)
        => /\ result[t] = "ok"
           /\ RanOnce(t, Head(IdsOf(entry[t].q)))
           /\ \A i \in (1..MaxJobs) \ {Head(IdsOf(entry[t].q))} : Untouched(t, i)
           /\ q.queue = Tail(entry[t].q.queue)
           /\ size(q) = size(entry[t].q) - 1
           /\ \A i \in InQueue(q) :
                 i \in Tracked(tracker) /\ StateOf(tracker, i) = PENDING
           /\ get_preview_result(bp) # <<>>
           /\ get_preview_result(bp)[1].image_id = Head(IdsOf(entry[t].q))
           /\ is_waiting_for_preview_approval(bp)

\* Two jobs were queued: the first was rendered as the preview, the second
\* is still queued and Pending.
C14_Witness ==
    /\ Returned(Caller, "start_processing")
    /\ preview_mode
    /\ ~entry[Caller].bp.preview_processed
    /\ IdsOf(entry[Caller].q) = <<1, 2>>
    /\ is_terminal_state(StateOf(tracker, 1))
    /\ IdsOf(q) = <<2>>
    /\ is_waiting_for_preview_approval(bp)

\* C15: reject_preview() called while waiting for approval returns with the
\* preview result discarded (get_preview_result() is None), the preview state
\* reset (processed and approved both false, so
\* is_waiting_for_preview_approval() is false), and the queue and every job
\* status exactly as they were: the queued jobs Pending, the previewed job
\* in its terminal state.
C15_RejectResetsPreview ==
    \A t \in Threads :
        (/\ Returned(t, "reject_preview")
         /\ preview_mode
         /\ is_waiting_for_preview_approval(entry[t].bp))
        => /\ result[t] = "ok"
           /\ get_preview_result(bp) = <<>>
           /\ ~bp.preview_processed
           /\ ~bp.preview_approved
           /\ ~is_waiting_for_preview_approval(bp)
           /\ q = entry[t].q
           /\ tracker = entry[t].tracker
           /\ rendered = entry[t].rendered
           /\ \A i \in InQueue(q) : StateOf(tracker, i) = PENDING
           /\ is_terminal_state(
                 StateOf(tracker, get_preview_result(entry[t].bp)[1].image_id))

\* A preview was rejected with a job left in the queue.
C15_Witness ==
    /\ Returned(Caller, "reject_preview")
    /\ is_waiting_for_preview_approval(entry[Caller].bp)
    /\ get_preview_result(entry[Caller].bp) # <<>>
    /\ get_preview_result(bp) = <<>>
    /\ size(q) > 0

\* C16: after a preview was produced and rejected (no preview is held, a job
\* has been rendered) with at least one job left in the queue, a following
\* start_processing() renders the head of the queue as a new preview and
\* returns waiting for approval again.
C16_RestartAfterReject ==
    \A t \in Threads :
        (/\ Returned(t, "start_processing")
         /\ preview_mode
         /\ ~entry[t].bp.preview_processed
         /\ \E i \in 1..MaxJobs : entry[t].rendered[i] > 0
         /\ size(entry[t].q) > 0)
        => /\ RanOnce(t, Head(IdsOf(entry[t].q)))
           /\ is_waiting_for_preview_approval(bp)

\* Thread t's latest call is approve_preview(), made in preview mode while a
\* preview awaited approval and neither pause nor cancel was requested.
Approving(t) ==
    /\ entry[t].call = "approve_preview"
    /\ preview_mode
    /\ is_waiting_for_preview_approval(entry[t].bp)
    /\ ~entry[t].bp.paused
    /\ ~entry[t].bp.cancelled

\* The jobs rendered since thread t made its call.
RenderedSince(t) == {i \in 1..MaxJobs : rendered[i] # entry[t].rendered[i]}

\* C17: approve_preview() called while a preview awaits approval (no pause
\* or cancel requested) renders the jobs left in the queue in queue order (at
\* every moment the jobs rendered so far are the first ones of the queue, each
\* rendered once) and returns with each of them Completed or Failed, every
\* tracked job terminal, the queue empty and
\* is_waiting_for_preview_approval() false; the previewed job and every other
\* job outside the queue is not rendered again; approve_preview() called
\* again after the approval returns with a warning and changes nothing.
C17_ApproveRunsTheRest ==
    \A t \in Threads :
        /\ Approving(t)
           => /\ \E k \in 0..Len(IdsOf(entry[t].q)) :
                    RenderedSince(t) = {IdsOf(entry[t].q)[j] : j \in 1..k}
              /\ \A i \in RenderedSince(t) : rendered[i] = entry[t].rendered[i] + 1
              /\ q.queue = SubSeq(entry[t].q.queue,
                                  Len(entry[t].q.queue) - Len(q.queue) + 1,
                                  Len(entry[t].q.queue))
        /\ (Approving(t) /\ Returned(t, "approve_preview"))
           => /\ result[t] = "ok"
              /\ \A i \in InQueue(entry[t].q) : RanOnce(t, i)
              /\ \A i \in (1..MaxJobs) \ InQueue(entry[t].q) : Untouched(t, i)
              /\ rendered[get_preview_result(entry[t].bp)[1].image_id] = 1
              /\ \A i \in Tracked(tracker) : is_terminal_state(StateOf(tracker, i))
              /\ size(q) = 0
              /\ q.queue = <<>>
              /\ ~is_waiting_for_preview_approval(bp)
        /\ (/\ Returned(t, "approve_preview")
            /\ preview_mode
            /\ entry[t].bp.preview_processed
            /\ entry[t].bp.preview_approved)
           => result[t] = "warning" /\ NothingChanged(t)

\* A preview was approved with one job left in the queue, which was then
\* rendered.
C17_Witness ==
    /\ Approving(Caller)
    /\ Returned(Caller, "approve_preview")
    /\ size(entry[Caller].q) = 1
    /\ RanOnce(Caller, Head(IdsOf(entry[Caller].q)))
    /\ \A i \in 1..MaxJobs : rendered[i] = 1

\* C18: approve_preview() and reject_preview() each raise
\* BatchProcessingError when preview mode is off, and when it is on but no
\* preview has been produced; the queue, every job status, the flags and the
\* preview state are then as they were and no job was rendered.
C18_PreviewMisuse ==
    \A t \in Threads :
        (/\ Returned(t, "approve_preview") \/ Returned(t, "reject_preview")
         /\ ~preview_mode \/ ~entry[t].bp.preview_processed)
        => result[t] = "BatchProcessingError" /\ NothingChanged(t)

\* In preview mode, jobs were queued and reject_preview() was called before
\* any preview was produced.
C18_Witness ==
    /\ Returned(Caller, "reject_preview")
    /\ preview_mode
    /\ ~entry[Caller].bp.preview_processed
    /\ size(q) > 0
    /\ result[Caller] = "BatchProcessingError"

\* Properties of a cancellation while the worker thread runs the loop

\* The state in which the caller's latest call, cancel_processing(), set the
\* cancel flag.
AtCancel == entry[Caller].accepted[1]

\* The jobs a tracker shows in a given state.
InState(T, s) == {i \in Tracked(T) : StateOf(T, i) = s}

\* The caller's latest call is an accepted cancel_processing(), which set the
\* flag while exactly one job was being executed, no pause was requested and
\* at least one job, registered and Pending like every job of the queue, was
\* still queued; the worker has returned from start_processing().
CancelledWhileExecuting ==
    /\ ~preview_mode
    /\ entry[Caller].call = "cancel_processing"
    /\ entry[Caller].accepted # <<>>
    /\ Cardinality(InState(AtCancel.tracker, PROCESSING)) = 1
    /\ size(AtCancel.q) > 0
    /\ InQueue(AtCancel.q) = InState(AtCancel.tracker, PENDING)
    /\ ~AtCancel.bp.paused
    /\ pc[Caller] = "idle"
    /\ \A t \in Threads \ {Caller} :
          pc[t] = "idle" /\ entry[t].call = "start_processing"

\* C19: with preview mode off, when cancel_processing() sets the flag while
\* the k-th job is being executed, with N - k >= 1 jobs still queued and no
\* pause requested, then once start_processing() has returned the job that
\* was being executed is Completed or Failed (rendered once), the k - 1 jobs
\* finished before are as they were, the N - k jobs that were queued are
\* Cancelled and were never rendered, no job is Pending or Processing, the
\* queue is empty and batch_end_time is set.
C19_CancelDrains ==
    CancelledWhileExecuting
    => /\ \A i \in InState(AtCancel.tracker, PROCESSING) :
             /\ StateOf(tracker, i) \in {COMPLETED, FAILED}
             /\ rendered[i] = AtCancel.rendered[i] + 1
       /\ \A i \in Tracked(AtCancel.tracker) :
             is_terminal_state(StateOf(AtCancel.tracker, i))
                => tracker.statuses[i] = AtCancel.tracker.statuses[i]
       /\ \A i \in InQueue(AtCancel.q) :
             StateOf(tracker, i) = CANCELLED /\ rendered[i] = 0
       /\ Tracked(tracker) = Tracked(AtCancel.tracker)
       /\ get_summary(tracker).completed + get_summary(tracker).failed
             = get_summary(tracker).total - size(AtCancel.q)
                  - get_summary(AtCancel.tracker).cancelled
       /\ get_summary(tracker).cancelled
             = get_summary(AtCancel.tracker).cancelled + size(AtCancel.q)
       /\ get_summary(tracker).pending = 0
       /\ get_summary(tracker).processing = 0
       /\ size(q) = 0
       /\ q.queue = <<>>
       /\ tracker.batch_end_time # NoTime

\* Two jobs were queued and the cancellation came while the first was being
\* executed: the first is finished, the second Cancelled.
C19_Witness ==
    /\ CancelledWhileExecuting
    /\ Cardinality(Tracked(tracker)) = 2
    /\ get_summary(tracker).completed + get_summary(tracker).failed = 1
    /\ get_summary(tracker).cancelled = 1
    /\ size(q) = 0

\* C20: with preview mode off, in every reachable state
\* is_waiting_for_preview_approval() is false and no preview result is held;
\* start_processing() (no pause or cancel being possible during the call of a
\* single caller) returns only with the queue empty, every job that was
\* queued having been rendered.
C20_NoConfirmationStep ==
    ~preview_mode
    => /\ ~is_waiting_for_preview_approval(bp)
       /\ get_preview_result(bp) = <<>>
       /\ ~bp.preview_processed
       /\ \A t \in Threads :
             Returned(t, "start_processing")
                => /\ size(q) = 0
                   /\ \A i \in InQueue(entry[t].q) : rendered[i] = 1

\* With preview mode off, start_processing() returned after rendering two
\* queued jobs.
C20_Witness ==
    /\ ~preview_mode
    /\ Returned(Caller, "start_processing")
    /\ size(entry[Caller].q) = 2
    /\ size(q) = 0
    /\ \A i \in InQueue(entry[Caller].q) : rendered[i] = 1
    /\ ~is_waiting_for_preview_approval(bp)

\* C21: add_images(paths) with v >= 1 valid paths returns with exactly v jobs
\* appended to the queue (the jobs queued before keep their places) and
\* exactly v new statuses registered, all Pending and those of the appended
\* jobs, the statuses registered before unchanged; with an empty list or no
\* valid path it raises ValidationError and leaves the queue and the tracker
\* as they were.
C21_AddJobs ==
    \A t \in Threads :
        Returned(t, "add_images")
        => IF CountValid(entry[t].arg) >= 1
           THEN /\ result[t] = "ok"
                /\ size(q) = size(entry[t].q) + CountValid(entry[t].arg)
                /\ Len(q.queue) = Len(entry[t].q.queue) + CountValid(entry[t].arg)
                /\ SubSeq(q.queue, 1, Len(entry[t].q.queue)) = entry[t].q.queue
                /\ Cardinality(Tracked(tracker) \ Tracked(entry[t].tracker))
                      = CountValid(entry[t].arg)
                /\ Tracked(tracker) \ Tracked(entry[t].tracker)
                      = InQueue(q) \ InQueue(entry[t].q)
                /\ \A i \in Tracked(tracker) \ Tracked(entry[t].tracker) :
                      StateOf(tracker, i) = PENDING
                /\ \A i \in Tracked(entry[t].tracker) :
                      i \in Tracked(tracker)
                         /\ tracker.statuses[i] = entry[t].tracker.statuses[i]
           ELSE /\ result[t] = "ValidationError"
                /\ q = entry[t].q
                /\ tracker = entry[t].tracker

\* With one job queued, a list of an invalid and a valid path was added: one
\* more job is queued.
C21_Witness ==
    /\ Returned(Caller, "add_images")
    /\ entry[Caller].arg = <<FALSE, TRUE>>
    /\ size(entry[Caller].q) = 1
    /\ size(q) = 2
    /\ Cardinality(Tracked(tracker)) = 2

\* Properties of a pause while the worker thread runs the loop

\* The state in which the caller's latest call, pause_processing(), set the
\* pause flag.
AtPause == entry[Caller].accepted[1]

\* The caller's latest call is an accepted pause_processing(), which set the
\* flag while exactly one job was being executed and at least one job,
\* registered and Pending like every job of the queue, was still queued; the
\* worker has returned from start_processing().
PausedWhileExecuting ==
    /\ ~preview_mode
    /\ entry[Caller].call = "pause_processing"
    /\ entry[Caller].accepted # <<>>
    /\ Cardinality(InState(AtPause.tracker, PROCESSING)) = 1
    /\ size(AtPause.q) > 0
    /\ InQueue(AtPause.q) = InState(AtPause.tracker, PENDING)
    /\ pc[Caller] = "idle"
    /\ \A t \in Threads \ {Caller} :
          pc[t] = "idle" /\ entry[t].call = "start_processing"

\* Thread t's latest call is resume_processing(), made with the pause flag
\* set after the loop has exited: no loop is running, no job is Processing
\* and at least one job, registered and Pending like every job of the queue,
\* is queued.
ResumingAfterPause(t) ==
    /\ ~preview_mode
    /\ entry[t].call = "resume_processing"
    /\ entry[t].bp.paused
    /\ ~entry[t].bp.processing
    /\ size(entry[t].q) > 0
    /\ InQueue(entry[t].q) = InState(entry[t].tracker, PENDING)
    /\ InState(entry[t].tracker, PROCESSING) = {}

BeforeCheck == {"lp_gc", "pv_gc", "pv_flag"} \cup {StoreAt[o] : o \in Outcomes}

\* C23: trigger_gc_if_needed() is called exactly once after every executed
\* job, Completed or Failed, before the thread dequeues its next job, tests
\* the loop condition again or returns: once a thread has executed a job, no
\* check has been counted after it up to the call that follows it, and
\* exactly one from then on until the thread dequeues again; this holds for
\* the preview job, the loop of start_processing and the loop of
\* approve_preview. (The check process_single_image makes on an out-of-memory
\* error is made while the job is being executed, at most once.)
C23_OneCheckAfterEachJob ==
    \A t \in Threads :
        gc[t] # NoJob
        => /\ gc[t][1].after = (IF pc[t] \in BeforeCheck THEN 0 ELSE 1)
           /\ gc[t][1].during \in {0, 1}
           /\ pc[t] \in BeforeCheck
                 => /\ queue_item[t] \in Tracked(tracker)
                    /\ StateOf(tracker, queue_item[t]) \in {COMPLETED, FAILED}

\* The loop of start_processing is about to dequeue the second job: the
\* first Failed on an out-of-memory error, with one check made while it was
\* executed and one after it.
C23_Witness ==
    /\ pc[Caller] = "lp_deq"
    /\ fn[Caller] = "start"
    /\ gc[Caller] # NoJob
    /\ gc[Caller][1].after = 1
    /\ gc[Caller][1].during = 1
    /\ ~preview_mode
    /\ \E i \in Tracked(tracker) : StateOf(tracker, i) = FAILED /\ rendered[i] = 1

\* Properties of the batch start time of the StatusTracker

\* C24: batch_start_time is unset exactly while no job is registered (none
\* ever was, or clear() has emptied the tracker since); the add_image that
\* registers the first job sets it to the time of the call; no later
\* add_image and no update_status changes it; clear() resets it.
C24_BatchStartSetOnce ==
    /\ [](tracker.batch_start_time = NoTime <=> Tracked(tracker) = {})
    /\ [][/\ (Tracked(tracker) = {} /\ Tracked(tracker') # {})
                => tracker'.batch_start_time = now
          /\ (Tracked(tracker) # {} /\ tracker' # clear_tracker(tracker))
                => tracker'.batch_start_time = tracker.batch_start_time
          /\ (Tracked(tracker) # {} /\ Tracked(tracker') = {})
                => tracker' = clear_tracker(tracker)]_vars

\* Two jobs are registered, the first call came at time 1, and a job began
\* processing at time 2: the batch start time is still 1.
C24_Witness ==
    /\ Cardinality(Tracked(tracker)) = 2
    /\ tracker.batch_start_time = 1
    /\ \E i \in Tracked(tracker) : tracker.statuses[i].start_time = 2
    /\ now = 2

\* Properties of the processing flag after the preview

\* C25: when approve_preview(), called while a preview awaits approval, has
\* returned, the processing flag is false, whatever the number of jobs left
\* in the queue at the approval, zero included.
C25_ApproveClearsProcessing ==
    \A t \in Threads :
        (/\ Returned(t, "approve_preview")
         /\ preview_mode
         /\ is_waiting_for_preview_approval(entry[t].bp))
        => ~bp.processing

\* C26: get_status() reports is_processing true in every state in which a
\* preview awaits approval, and false once reject_preview() has returned
\* after rejecting a preview; whenever no method of the processor is running,
\* is_processing is true if and only if a preview awaits approval.
C26_ProcessingIffAwaiting ==
    /\ is_waiting_for_preview_approval(bp)
          => processor_get_status(bp, q, tracker).is_processing
    /\ \A t \in Threads :
          (/\ Returned(t, "reject_preview")
           /\ preview_mode
           /\ is_waiting_for_preview_approval(entry[t].bp))
          => ~processor_get_status(bp, q, tracker).is_processing
    /\ (\A t \in Threads : pc[t] = "idle")
          => (processor_get_status(bp, q, tracker).is_processing
                <=> is_waiting_for_preview_approval(bp))

\* Properties of a cancellation together with a pause

\* C27: when the loop begins an iteration with jobs queued and both the cancel
\* flag and the pause flag set (here: approve_preview() called after
\* pause_processing() and cancel_processing() were accepted while the preview
\* awaited approval), it dequeues every queued job and marks each Cancelled
\* without rendering it, and the call returns with the queue empty; no job
\* that is Cancelled is rendered afterwards.
C27_CancelBeforePause ==
    /\ \A t \in Threads :
          (/\ Returned(t, "approve_preview")
           /\ preview_mode
           /\ is_waiting_for_preview_approval(entry[t].bp)
           /\ entry[t].bp.paused
           /\ entry[t].bp.cancelled
           /\ size(entry[t].q) > 0)
          => /\ \A i \in InQueue(entry[t].q) :
                   StateOf(tracker, i) = CANCELLED /\ rendered[i] = 0
             /\ size(q) = 0
    /\ \A i \in Tracked(tracker) : StateOf(tracker, i) = CANCELLED => rendered[i] = 0

\* C28: with start_processing() running on the worker and
\* cancel_processing() called from the caller's thread at any point, no job
\* becomes Cancelled while some job is Processing, and once a job has been
\* marked Cancelled after the cancellation the job that was being executed
\* when cancel_processing() set the flag is Completed or Failed.
C28_CooperativeCancel ==
    /\ [][\A i \in Tracked(tracker') :
             (StateOf(tracker', i) = CANCELLED
                /\ (i \in Tracked(tracker) => StateOf(tracker, i) # CANCELLED))
             => /\ InState(tracker, PROCESSING) = {}
                /\ InState(tracker', PROCESSING) = {}]_vars
    /\ [](entry[Caller].call = "cancel_processing" /\ entry[Caller].accepted # <<>>
            => \A i \in InState(AtCancel.tracker, PROCESSING) :
                  InState(tracker, CANCELLED) # InState(AtCancel.tracker, CANCELLED)
                     => StateOf(tracker, i) \in {COMPLETED, FAILED})

\* The cancellation came while a job was being executed; that job has
\* Failed and the worker has just marked the first remaining job Cancelled.
C28_Witness ==
    /\ entry[Caller].call = "cancel_processing"
    /\ entry[Caller].accepted # <<>>
    /\ \E i \in InState(AtCancel.tracker, PROCESSING) : StateOf(tracker, i) = FAILED
    /\ InState(tracker, CANCELLED) # {}
    /\ \E t \in Threads : pc[t] = "dr_test"

\* C29: under any interleaving of the loops with the calls, a job that is
\* Cancelled was never handed to the renderer and never was Processing (its
\* start_time was never stamped), a job handed to the renderer is not
\* Cancelled, and the job a thread has dequeued for processing is not
\* Cancelled.
C29_DequeuedOrCancelled ==
    /\ \A i \in Tracked(tracker) :
          StateOf(tracker, i) = CANCELLED
             => rendered[i] = 0 /\ tracker.statuses[i].start_time = NoTime
    /\ \A i \in Tracked(tracker) :
          rendered[i] > 0 => StateOf(tracker, i) # CANCELLED
    /\ \A t \in Threads :
          (queue_item[t] \in Tracked(tracker) /\ pc[t] # "dr_mark")
             => StateOf(tracker, queue_item[t]) # CANCELLED

\* In preview mode, the first job was rendered and Completed, the second was
\* taken out of the queue by a cancellation and is Cancelled.
C29_Witness ==
    /\ preview_mode
    /\ \E i \in Tracked(tracker) : StateOf(tracker, i) = COMPLETED /\ rendered[i] = 1
    /\ \E i \in Tracked(tracker) : StateOf(tracker, i) = CANCELLED /\ rendered[i] = 0
    /\ size(q) = 0

\* Properties of the single worker

\* The threads that are inside a processing loop or the preview branch: past
\* the assignment of the processing flag and not yet through the finally
\* block.
InLoop ==
    {t \in Threads :
        pc[t] \in {"sp_set_cancelled", "sp_set_paused", "sp_branch",
                   "pv_deq", "pv_mark", "pv_render", "pv_flag", "pv_gc",
                   "lp_test", "lp_pause", "lp_cancel", "lp_deq", "lp_mark",
                   "lp_render", "lp_gc", "dr_test", "dr_deq", "dr_mark",
                   "sp_fin", "cp_fin"}
                \cup {StoreAt[o] : o \in Outcomes}}

\* C30: with start_processing() running on the worker and the other calls
\* arriving on the caller's thread, interleaved statement by statement, at
\* most one thread is inside a processing loop and at most one job is
\* Processing at any time.
C30_SingleWorker ==
    /\ Cardinality(InLoop) <= 1
    /\ Cardinality(InState(tracker, PROCESSING)) <= 1

\* Properties of resume_processing()

\* C31: resume_processing() called with the pause flag set returns with the
\* flag cleared and without an exception reaching the caller, also when the
\* queue is empty at the call (pause_processing() was accepted while the last
\* job of the batch was being executed).
C31_ResumeNeverRaises ==
    \A t \in Threads :
        (Returned(t, "resume_processing") /\ entry[t].bp.paused)
            => /\ ~bp.paused
               /\ result[t] \in {"ok", "warning"}

\* Properties of the preview state across batches

\* Thread t's latest call is start_processing(), made in preview mode on a
\* processor whose earlier batch was previewed, approved and drained (every
\* job outside the queue is terminal), with new jobs, all Pending, queued.
StartingNextBatch(t) ==
    /\ entry[t].call = "start_processing"
    /\ preview_mode
    /\ entry[t].bp.preview_processed
    /\ entry[t].bp.preview_approved
    /\ size(entry[t].q) > 0
    /\ InQueue(entry[t].q) = InState(entry[t].tracker, PENDING)
    /\ \A i \in Tracked(entry[t].tracker) \ InQueue(entry[t].q) :
          is_terminal_state(StateOf(entry[t].tracker, i))

\* C32: start_processing() called in preview mode with new jobs queued after
\* an earlier batch was approved and drained renders exactly the first of the
\* new jobs, stores a preview result for it and returns with a preview
\* awaiting approval and the other new jobs untouched in the queue.
C32_FreshPreviewPerBatch ==
    \A t \in Threads :
        (StartingNextBatch(t) /\ Returned(t, "start_processing"))
            => /\ RanOnce(t, Head(IdsOf(entry[t].q)))
               /\ RenderedSince(t) = {Head(IdsOf(entry[t].q))}
               /\ is_waiting_for_preview_approval(bp)
               /\ get_preview_result(bp) # <<>>
               /\ get_preview_result(bp)[1].image_id = Head(IdsOf(entry[t].q))
               /\ q.queue = Tail(entry[t].q.queue)
               /\ \A i \in InQueue(q) : StateOf(tracker, i) = PENDING

\* Properties of the StatusTracker: terminal states and the batch end

\* The counters of a summary.
Counts(T) ==
    [f \in {"total", "pending", "processing", "completed", "failed", "cancelled"} |->
        get_summary(T)[f]]

\* C33: update_status called for a job that is in a terminal state, with a
\* different terminal state, raises or does nothing: after the call the job
\* is in the state it was in and the counters of the summary are the same.
C33_TerminalUpdateRefused ==
    \A i \in Tracked(tracker), s \in valid_states, a \in OptArgs :
        (/\ is_terminal_state(StateOf(tracker, i))
         /\ is_terminal_state(s)
         /\ s # StateOf(tracker, i))
        => LET after == update_status(tracker, i, s, a[1], a[2], now).T
           IN  /\ StateOf(after, i) = StateOf(tracker, i)
               /\ Counts(after) = Counts(tracker)

C35_GateOnSuccessAndFailure ==
    \A t \in Threads :
        (/\ Returned(t, "start_processing")
         /\ preview_mode
         /\ ~entry[t].bp.preview_processed
         /\ ~entry[t].bp.processing
         /\ size(entry[t].q) > 0)
        => LET h == Head(IdsOf(entry[t].q))
               r == get_preview_result(bp)
           IN  /\ StateOf(tracker, h) \in {COMPLETED, FAILED}
               /\ r # <<>>
               /\ r[1].image_id = h
               /\ r[1].status = get_status(tracker, h).ret
               /\ get_status(tracker, h).err = "none"
               /\ StateOf(tracker, h) = COMPLETED
                     => /\ r[1].output_path = OutPath
                        /\ r[1].output_path = tracker.statuses[h].output_path
                        /\ r[1].error = NoStr
               /\ StateOf(tracker, h) = FAILED
                     => /\ r[1].output_path = NoStr
                        /\ r[1].error \in {StageError, Unexpected}
               /\ is_waiting_for_preview_approval(bp)

\* The preview job failed and the preview awaits approval with the error
\* stored; a second job is still queued.
C35_Witness ==
    /\ Returned(Caller, "start_processing")
    /\ preview_mode
    /\ ~entry[Caller].bp.preview_processed
    /\ IdsOf(entry[Caller].q) = <<1, 2>>
    /\ StateOf(tracker, 1) = FAILED
    /\ get_preview_result(bp) # <<>>
    /\ get_preview_result(bp)[1].error = StageError
    /\ is_waiting_for_preview_approval(bp)
    /\ IdsOf(q) = <<2>>

\* Properties of the jobs across the queue and the tracker

\* C36: under any interleaving of the calls, no job is handed to the renderer
\* more than once and a job that was rendered is not in the queue; whenever
\* no thread is inside a processing loop a registered job is in the queue if
\* and only if it is Pending and no job is Processing, and whenever no method
\* is running get_status() reports a queue_size equal to its pending count.
C36_NoJobLostOrRepeated ==
    /\ \A i \in 1..MaxJobs :
          rendered[i] <= 1 /\ (rendered[i] > 0 => i \notin InQueue(q))
    /\ InLoop = {}
          => /\ \A i \in Tracked(tracker) :
                   i \in InQueue(q) <=> StateOf(tracker, i) = PENDING
             /\ InState(tracker, PROCESSING) = {}
    /\ (\A t \in Threads : pc[t] = "idle")
          => processor_get_status(bp, q, tracker).queue_size
                = processor_get_status(bp, q, tracker).pending

\* Properties of a cancellation of a paused batch

\* Thread t made its latest call on a paused batch: the loop has exited on
\* the pause flag (the processing flag is false, the pause flag set; in
\* preview mode the loop ran because the preview was approved) and jobs,
\* registered and Pending, are still queued.
OnPausedBatch(t) ==
    /\ ~entry[t].bp.processing
    /\ entry[t].bp.paused
    /\ preview_mode => entry[t].bp.preview_processed /\ entry[t].bp.preview_approved
    /\ size(entry[t].q) > 0
    /\ InQueue(entry[t].q) = InState(entry[t].tracker, PENDING)

\* C37: cancel_processing() called on a paused batch returns with a warning
\* and changes nothing: no job is marked Cancelled, the queue and the flags
\* are as they were (the cancel flag false if it was); resume_processing()
\* called on a paused batch renders every queued job once and returns with
\* the queue empty and none of those jobs Cancelled.
C37_CancelOnPausedBatch ==
    \A t \in Threads :
        /\ (Returned(t, "cancel_processing") /\ OnPausedBatch(t))
              => /\ result[t] = "warning"
                 /\ NothingChanged(t)
                 /\ InState(tracker, CANCELLED) = InState(entry[t].tracker, CANCELLED)
                 /\ bp.cancelled = entry[t].bp.cancelled
        /\ (Returned(t, "resume_processing") /\ OnPausedBatch(t))
              => /\ result[t] = "ok"
                 /\ \A i \in InQueue(entry[t].q) : RanOnce(t, i)
                 /\ size(q) = 0
                 /\ ~bp.paused
                 /\ ~bp.cancelled

\* cancel_processing() was refused on a paused batch: the approved batch had
\* stopped on the pause flag with a job queued, which is still Pending and
\* queued, and the cancel flag is false.
C37_Witness ==
    /\ Returned(Caller, "cancel_processing")
    /\ OnPausedBatch(Caller)
    /\ ~entry[Caller].bp.cancelled
    /\ result[Caller] = "warning"
    /\ ~bp.cancelled
    /\ InQueue(q) # {}
    /\ InQueue(q) = InState(tracker, PENDING)

\* Properties of control requests made while a preview awaits approval

\* Thread t's latest call is approve_preview(), made in preview mode while a
\* preview awaited approval and jobs, registered and Pending, were queued.
ApprovingTheRest(t) ==
    /\ entry[t].call = "approve_preview"
    /\ preview_mode
    /\ is_waiting_for_preview_approval(entry[t].bp)
    /\ size(entry[t].q) > 0
    /\ InQueue(entry[t].q) = InState(entry[t].tracker, PENDING)

\* Thread t's latest call is resume_processing(), made after an approved
\* batch stopped on the pause flag with jobs, registered and Pending, queued.
ResumingApproved(t) ==
    /\ entry[t].call = "resume_processing"
    /\ preview_mode
    /\ entry[t].bp.preview_processed
    /\ entry[t].bp.preview_approved
    /\ OnPausedBatch(t)

\* C38: approve_preview() called with jobs queued after cancel_processing()
\* (and no pause) was accepted while the preview awaited approval renders no
\* job and returns with every queued job Cancelled and the queue empty;
\* called after pause_processing() (and no cancel) was accepted, it renders
\* no job and returns with the queue and its jobs as they were, Pending, the
\* pause flag set and the processing flag false; resume_processing() called
\* then renders each of those jobs once.
C38_ControlWhileAwaiting ==
    \A t \in Threads :
        /\ (ApprovingTheRest(t) /\ (entry[t].bp.cancelled \/ entry[t].bp.paused))
              => RenderedSince(t) = {}
        /\ (/\ ApprovingTheRest(t)
            /\ Returned(t, "approve_preview")
            /\ entry[t].bp.cancelled
            /\ ~entry[t].bp.paused)
              => /\ result[t] = "ok"
                 /\ \A i \in InQueue(entry[t].q) : StateOf(tracker, i) = CANCELLED
                 /\ \A i \in (1..MaxJobs) \ InQueue(entry[t].q) : Untouched(t, i)
                 /\ size(q) = 0
                 /\ ~bp.processing
        /\ (/\ ApprovingTheRest(t)
            /\ Returned(t, "approve_preview")
            /\ entry[t].bp.paused
            /\ ~entry[t].bp.cancelled)
              => /\ result[t] = "ok"
                 /\ q = entry[t].q
                 /\ tracker = entry[t].tracker
                 /\ bp.paused
                 /\ ~bp.processing
                 /\ bp.preview_approved
        /\ (ResumingApproved(t) /\ Returned(t, "resume_processing"))
              => /\ result[t] = "ok"
                 /\ \A i \in InQueue(entry[t].q) : RanOnce(t, i)
                 /\ \A i \in (1..MaxJobs) \ InQueue(entry[t].q) : Untouched(t, i)
                 /\ size(q) = 0
                 /\ ~is_waiting_for_preview_approval(bp)

\* The preview of the first of two jobs awaited approval when the
\* cancellation was accepted; approve_preview() has returned with the second
\* job Cancelled and never rendered.
C38_Witness ==
    /\ ApprovingTheRest(Caller)
    /\ Returned(Caller, "approve_preview")
    /\ entry[Caller].bp.cancelled
    /\ ~entry[Caller].bp.paused
    /\ IdsOf(entry[Caller].q) = <<2>>
    /\ StateOf(tracker, 2) = CANCELLED
    /\ rendered = <<1, 0>>
    /\ size(q) = 0

\* Properties of a rejection after the approval

\* C39: reject_preview() called after the preview was approved leaves the
\* preview state as it was: the preview is still processed and approved and
\* the preview result is kept.
C39_ApprovalIsFinal ==
    \A t \in Threads :
        (/\ Returned(t, "reject_preview")
         /\ preview_mode
         /\ entry[t].bp.preview_processed
         /\ entry[t].bp.preview_approved)
        => /\ bp.preview_processed
           /\ bp.preview_approved
           /\ get_preview_result(bp) = get_preview_result(entry[t].bp)
           /\ get_preview_result(bp) # <<>>

====
